---- MODULE Spec2Model ----
(***************************************************************************)
(* PawPal+ scheduler core (src/pawpal_system.py): Task, Pet, Owner and     *)
(* Scheduler as a state machine over a heap of Task and Pet objects.       *)
(* Times are minutes since midnight of day 0 (naive local timestamps).     *)
(***************************************************************************)
EXTENDS Integers, Sequences, FiniteSets, TLC

VARIABLES
    task_objs,      \* every Task object constructed so far, by reference (index)
    pet_objs,       \* every Pet object constructed so far, by reference (index)
    owner_pets,     \* Owner.pets: sequence of Pet references
    sched_owner,    \* Scheduler.owner is bound (not None)
    next_task_id,   \* Scheduler._next_task_id
    ret             \* the last call: its name, arguments and returned value

vars == <<task_objs, pet_objs, owner_pets, sched_owner, next_task_id, ret>>

-----------------------------------------------------------------------------
(* Bounds of the model *)

MaxTasks == 3       \* Task objects on the heap
MaxClientTasks == 1 \* Task objects the client constructs itself
MaxPets == 2        \* entries of Owner.pets
MaxId == 3          \* largest value generate_task_id hands out

-----------------------------------------------------------------------------
(* Values *)

\* Optional[datetime] None (due_time, get_end_time)
NoTime == -1
\* Optional[str] None (Task.pet_name default)
NoPet == "None"

HIGH == "High"
MEDIUM == "Medium"
LOW == "Low"

DAILY == "daily"
WEEKLY == "weekly"
MONTHLY == "monthly"
ONE_TIME == "one_time"

\* minutes in timedelta(days=1)
DayMinutes == 1440

\* timedelta(days=1), timedelta(weeks=1), timedelta(days=30), in minutes
Period(frequency) ==
    CASE frequency = DAILY -> DayMinutes
      [] frequency = WEEKLY -> 7 * DayMinutes
      [] frequency = MONTHLY -> 30 * DayMinutes
      [] OTHER -> 0

\* datetime.date(): the calendar day of a timestamp
DateOf(t) == t \div DayMinutes

-----------------------------------------------------------------------------
(* Task *)

\* Task.__post_init__: the dataclass with is_completed and pet_name defaults
TaskValid(duration_minutes, description) ==
    ~(duration_minutes <= 0) /\ ~(description = "")

\* no exception
NoError == ""

\* a check that refuses negative durations only
TaskRaisesNegativeOnly(duration_minutes, description) ==
    IF duration_minutes < 0 THEN "ValueError: Duration must be greater than 0."
    ELSE IF description = "" THEN "ValueError: Description cannot be empty."
    ELSE NoError

\* Task.__post_init__: the exception raised, in the order of the checks
TaskRaises(duration_minutes, description) ==
    IF duration_minutes <= 0 THEN "ValueError: Duration must be greater than 0."
    ELSE IF description = "" THEN "ValueError: Description cannot be empty."
    ELSE NoError

Task(id, description, duration_minutes, priority, due_time, frequency, is_completed) ==
    [id |-> id, description |-> description,
     duration_minutes |-> duration_minutes, priority |-> priority,
     due_time |-> due_time, frequency |-> frequency,
     is_completed |-> is_completed, pet_name |-> NoPet]

\* Task.mark_complete on the object t of heap h
mark_complete_toggle(h, t) == [h EXCEPT ![t].is_completed = ~@]

mark_complete(h, t) == [h EXCEPT ![t].is_completed = TRUE]

\* get_end_time without the duration added
get_end_time_no_duration(task) == task.due_time

\* Task.get_end_time
get_end_time(task) ==
    IF task.due_time = NoTime THEN NoTime
    ELSE task.due_time + task.duration_minutes

\* overlaps_with with <= in place of <: touching windows count as overlap
overlaps_with_inclusive(self, other_task) ==
    IF self.due_time = NoTime \/ other_task.due_time = NoTime THEN FALSE
    ELSE self.due_time <= get_end_time(other_task)
         /\ other_task.due_time <= get_end_time(self)

\* Task.overlaps_with
overlaps_with(self, other_task) ==
    IF self.due_time = NoTime \/ other_task.due_time = NoTime THEN FALSE
    ELSE self.due_time < get_end_time(other_task)
         /\ other_task.due_time < get_end_time(self)

-----------------------------------------------------------------------------
(* Pet and Owner *)

Pet(name, species, age) ==
    [name |-> name, species |-> species, age |-> age, tasks |-> <<>>]

\* Pet.__post_init__: the exception raised, in the order of the checks
PetRaises(name, species, age) ==
    IF name = "" THEN "ValueError: Pet name cannot be empty."
    ELSE IF species = "" THEN "ValueError: Species cannot be empty."
    ELSE IF age < 0 THEN "ValueError: Age cannot be negative."
    ELSE NoError

PetValid(name, species, age) ==
    ~(name = "") /\ ~(species = "") /\ ~(age < 0)

\* Pet.add_task on heaps st = [tasks, pets, next, count]: stamps the task
\* with the pet's name and appends its reference
add_task_in_front(st, p, t) ==
    [st EXCEPT !.tasks[t].pet_name = st.pets[p].name,
               !.pets[p].tasks = <<t>> \o @]

add_task(st, p, t) ==
    [st EXCEPT !.tasks[t].pet_name = st.pets[p].name,
               !.pets[p].tasks = Append(@, t)]

\* Owner.get_all_tasks: (pet.name, task reference) pairs, pets in owner
\* order and tasks in pet order
RECURSIVE PetPairs(_, _, _)
PetPairs(name, refs, k) ==
    IF k > Len(refs) THEN <<>>
    ELSE <<[pet |-> name, task |-> refs[k]]>> \o PetPairs(name, refs, k + 1)

RECURSIVE OwnerAllTasks(_, _, _)
OwnerAllTasks(pets, opets, k) ==
    IF k > Len(opets) THEN <<>>
    ELSE PetPairs(pets[opets[k]].name, pets[opets[k]].tasks, 1)
         \o OwnerAllTasks(pets, opets, k + 1)

-----------------------------------------------------------------------------
(* Persistence: Owner.load_from_json, Pet.from_dict, Task.from_dict *)

\* a JSON scalar of a snapshot, or the absence of the key
JAbsent == [tag |-> "absent", s |-> "", n |-> 0]
JNull == [tag |-> "null", s |-> "", n |-> 0]
JStr(s) == [tag |-> "str", s |-> s, n |-> 0]
JInt(n) == [tag |-> "int", s |-> "", n |-> n]

\* bool(v) of a JSON scalar
Truthy(v) ==
    CASE v.tag = "str" -> v.s # ""
      [] v.tag = "int" -> v.n # 0
      [] OTHER -> FALSE

\* Task.from_dict: the backward-compatible priority strings
NormalPriority(v) ==
    IF v.tag # "str" THEN v
    ELSE CASE v.s = "high" -> JStr("High")
           [] v.s = "medium" -> JStr("Medium")
           [] v.s = "low" -> JStr("Low")
           [] OTHER -> v

\* Priority(value), Frequency(value): is the value one of the enum's
IsPriority(v) == v.tag = "str" /\ v.s \in {HIGH, MEDIUM, LOW}
IsFrequency(v) == v.tag = "str" /\ v.s \in {DAILY, WEEKLY, MONTHLY, ONE_TIME}

\* datetime.fromisoformat on the strings of the snapshots: minutes, or
\* NoTime for a string that is no ISO date
FromIso(s) == IF s = "2026-01-01T09:00:00" THEN 540 ELSE NoTime

\* Task.from_dict(data): the exception raised, in evaluation order
TaskFromDictRaises(data) ==
    IF data.priority.tag = "absent" THEN "KeyError"
    ELSE IF data.description.tag = "absent" THEN "KeyError"
    ELSE IF data.duration_minutes.tag = "absent" THEN "KeyError"
    ELSE IF ~IsPriority(NormalPriority(data.priority)) THEN "ValueError"
    ELSE IF data.due_time.tag = "absent" THEN "KeyError"
    ELSE IF Truthy(data.due_time) /\ data.due_time.tag # "str" THEN "TypeError"
    ELSE IF Truthy(data.due_time) /\ FromIso(data.due_time.s) = NoTime
         THEN "ValueError"
    ELSE IF data.frequency.tag = "absent" THEN "KeyError"
    ELSE IF ~IsFrequency(data.frequency) THEN "ValueError"
    ELSE IF data.duration_minutes.tag # "int" THEN "TypeError"
    ELSE IF data.duration_minutes.n <= 0 THEN "ValueError"
    ELSE IF ~Truthy(data.description) THEN "ValueError"
    ELSE NoError

\* Task.from_dict(data): the Task built when nothing is raised
TaskFromDict(data) ==
    Task(1, data.description.s, data.duration_minutes.n,
         NormalPriority(data.priority).s,
         IF Truthy(data.due_time) THEN FromIso(data.due_time.s) ELSE NoTime,
         data.frequency.s, FALSE)

\* the first exception of a list of exceptions, NoError when there is none
RECURSIVE FirstRaised(_, _)
FirstRaised(raised, k) ==
    IF k > Len(raised) THEN NoError
    ELSE IF raised[k] # NoError THEN raised[k]
    ELSE FirstRaised(raised, k + 1)

\* Pet.from_dict(data): the exception raised, in evaluation order
PetFromDictRaises(data) ==
    IF data.tag # "object" THEN "TypeError"
    ELSE IF data.name.tag = "absent" THEN "KeyError"
    ELSE IF data.species.tag = "absent" THEN "KeyError"
    ELSE IF data.age.tag = "absent" THEN "KeyError"
    ELSE IF ~Truthy(data.name) THEN "ValueError"
    ELSE IF ~Truthy(data.species) THEN "ValueError"
    ELSE IF data.age.tag # "int" THEN "TypeError"
    ELSE IF data.age.n < 0 THEN "ValueError"
    ELSE IF data.tasks.tag = "absent" THEN NoError
    ELSE IF data.tasks.tag # "list" THEN "TypeError"
    ELSE FirstRaised([k \in DOMAIN data.tasks.items |->
                        TaskFromDictRaises(data.tasks.items[k])], 1)

\* the body of the try block of load_from_json on a file that exists
LoadRaises(file) ==
    IF file.kind = "garbage" THEN "JSONDecodeError"
    ELSE IF file.top # "object" THEN "AttributeError"
    ELSE IF file.pets.tag = "absent" THEN NoError
    ELSE IF file.pets.tag # "list" THEN "TypeError"
    ELSE FirstRaised([k \in DOMAIN file.pets.items |->
                        PetFromDictRaises(file.pets.items[k])], 1)

\* the exceptions load_from_json catches
Caught == {"JSONDecodeError", "KeyError", "ValueError"}

\* Owner.load_from_json(filepath): what the call raises, and the name and
\* the pets (as snapshot entries) of the Owner it returns
load_from_json(file) ==
    IF file.kind = "missing"
    THEN [raised |-> NoError, name |-> JStr("Pet Owner"), pets |-> <<>>]
    ELSE LET raised == LoadRaises(file)
         IN  IF raised = NoError
             THEN [raised |-> NoError,
                   name |-> IF file.name.tag = "absent" THEN JStr("Pet Owner")
                            ELSE file.name,
                   pets |-> IF file.pets.tag = "absent" THEN <<>>
                            ELSE file.pets.items]
             ELSE IF raised \in Caught
             THEN [raised |-> NoError, name |-> JStr("Pet Owner"), pets |-> <<>>]
             ELSE [raised |-> raised, name |-> JNull, pets |-> <<>>]

-----------------------------------------------------------------------------
(* Scheduler *)

Max(a, b) == IF a >= b THEN a ELSE b

\* _sync_task_id_counter: max id over owner.pets' tasks, plus one
RECURSIVE MaxIdOf(_, _, _)
MaxIdOf(h, pairs, k) ==
    IF k > Len(pairs) THEN 0
    ELSE Max(h[pairs[k].task].id, MaxIdOf(h, pairs, k + 1))

\* a counter set from the number of tasks instead of their ids
SyncedCounterByCount(h, pets, opets) == Len(OwnerAllTasks(pets, opets, 1)) + 1

SyncedCounter(h, pets, opets) == MaxIdOf(h, OwnerAllTasks(pets, opets, 1), 1) + 1

\* Scheduler.get_pet_by_name: first pet of owner.pets with that name, 0 for None
\* the last pet of that name instead of the first
RECURSIVE LastPetNamed(_, _, _, _)
LastPetNamed(pets, opets, name, k) ==
    IF k > Len(opets) THEN 0
    ELSE LET later == LastPetNamed(pets, opets, name, k + 1)
         IN  IF later # 0 THEN later
             ELSE IF pets[opets[k]].name = name THEN opets[k]
             ELSE 0

RECURSIVE FirstPetNamed(_, _, _, _)
FirstPetNamed(pets, opets, name, k) ==
    IF k > Len(opets) THEN 0
    ELSE IF pets[opets[k]].name = name THEN opets[k]
    ELSE FirstPetNamed(pets, opets, name, k + 1)

\* get_pet_by_name without the test for a bound Owner
get_pet_by_name_unbound(bound, pets, opets, name) ==
    FirstPetNamed(pets, opets, name, 1)

get_pet_by_name(bound, pets, opets, name) ==
    IF ~bound THEN 0 ELSE FirstPetNamed(pets, opets, name, 1)

\* get_all_tasks without the test for a bound Owner
get_all_tasks_unbound(bound, pets, opets) == OwnerAllTasks(pets, opets, 1)

\* Scheduler.get_all_tasks
get_all_tasks(bound, pets, opets) ==
    IF ~bound THEN <<>> ELSE OwnerAllTasks(pets, opets, 1)

\* comparison of two key tuples as Python compares tuples: the first
\* position where they differ decides
RECURSIVE TupleLess(_, _, _)
TupleLess(x, y, k) ==
    IF k > Len(x) \/ k > Len(y) THEN Len(x) < Len(y)
    ELSE IF x[k] # y[k] THEN x[k] < y[k]
    ELSE TupleLess(x, y, k + 1)

\* an insertion that puts index i before an index with an equal key
RECURSIVE InsertIdxBeforeEqual(_, _, _, _)
InsertIdxBeforeEqual(idx, i, keys, k) ==
    IF k > Len(idx) THEN Append(idx, i)
    ELSE IF ~TupleLess(keys[idx[k]], keys[i], 1)
         THEN SubSeq(idx, 1, k - 1) \o <<i>> \o SubSeq(idx, k, Len(idx))
    ELSE InsertIdxBeforeEqual(idx, i, keys, k + 1)

\* sorted(): index i goes before the first index of idx whose key is greater
\* than its own, so after every index with an equal key
RECURSIVE InsertIdx(_, _, _, _)
InsertIdx(idx, i, keys, k) ==
    IF k > Len(idx) THEN Append(idx, i)
    ELSE IF TupleLess(keys[i], keys[idx[k]], 1)
         THEN SubSeq(idx, 1, k - 1) \o <<i>> \o SubSeq(idx, k, Len(idx))
    ELSE InsertIdx(idx, i, keys, k + 1)

RECURSIVE SortIdx(_, _)
SortIdx(keys, n) ==
    IF n = 0 THEN <<>> ELSE InsertIdx(SortIdx(keys, n - 1), n, keys, 1)

\* sorted(items, key=...) and list.sort(key=...): keys[i] is the key of items[i]
sorted(items, keys) ==
    LET idx == SortIdx(keys, Len(items))
    IN  [k \in 1..Len(items) |-> items[idx[k]]]

\* bool as a tuple member: False < True
BoolInt(b) == IF b THEN 1 ELSE 0

\* sort_tasks_by_time: key (task.due_time is None, task.due_time)
TimeKey(task) == <<BoolInt(task.due_time = NoTime), task.due_time>>

\* Scheduler.sort_tasks_by_time(tasks), tasks a list of references into h
sort_tasks_by_time(h, tasks) ==
    sorted(tasks, [k \in 1..Len(tasks) |-> TimeKey(h[tasks[k]])])

\* sort_by_priority_and_time: priority_order[task.priority.value]
SortPriorityOrder(priority) ==
    CASE priority = HIGH -> 0
      [] priority = MEDIUM -> 1
      [] priority = LOW -> 2

\* a key that compares the time before the priority
PriorityKeyTimeFirst(task) ==
    <<BoolInt(task.due_time = NoTime), task.due_time,
      SortPriorityOrder(task.priority)>>

\* sort_by_priority_and_time: key (priority_order, due_time is None, due_time)
PriorityKey(task) ==
    <<SortPriorityOrder(task.priority), BoolInt(task.due_time = NoTime),
      task.due_time>>

\* Scheduler.sort_by_priority_and_time(tasks), tasks a list of references into h
sort_by_priority_and_time(h, tasks) ==
    sorted(tasks, [k \in 1..Len(tasks) |-> PriorityKey(h[tasks[k]])])

\* an omitted completed argument (None); a given one is <<TRUE>> or <<FALSE>>
NoFlag == <<>>

\* a filter that keeps a task when either condition holds
FilterMatchEither(pet, task, pet_name, completed) ==
    \/ (pet_name = NoPet \/ pet = pet_name)
    \/ (completed = NoFlag \/ <<task.is_completed>> = completed)

\* filter_tasks: the condition of the list comprehension
FilterMatch(pet, task, pet_name, completed) ==
    /\ (pet_name = NoPet \/ pet = pet_name)
    /\ (completed = NoFlag \/ <<task.is_completed>> = completed)

\* filter_tasks: the list comprehension over all_tasks from position k
RECURSIVE FilterFrom(_, _, _, _, _)
FilterFrom(h, all_tasks, k, pet_name, completed) ==
    IF k > Len(all_tasks) THEN <<>>
    ELSE (IF FilterMatch(all_tasks[k].pet, h[all_tasks[k].task],
                         pet_name, completed)
          THEN <<all_tasks[k].task>> ELSE <<>>)
         \o FilterFrom(h, all_tasks, k + 1, pet_name, completed)

\* Scheduler.filter_tasks(pet_name, completed)
filter_tasks(h, bound, pets, opets, pet_name, completed) ==
    FilterFrom(h, get_all_tasks(bound, pets, opets), 1, pet_name, completed)

\* a scan that passes over completed tasks
RECURSIVE ScanConflictsPending(_, _, _, _)
ScanConflictsPending(h, all_tasks, k, new_task) ==
    IF k > Len(all_tasks) THEN FALSE
    ELSE IF ~h[all_tasks[k].task].is_completed
            /\ overlaps_with(h[all_tasks[k].task], new_task) THEN TRUE
    ELSE ScanConflictsPending(h, all_tasks, k + 1, new_task)

\* check_conflicts: the scan of the flat list from position k, returning at
\* the first task that overlaps new_task
RECURSIVE ScanConflicts(_, _, _, _)
ScanConflicts(h, all_tasks, k, new_task) ==
    IF k > Len(all_tasks) THEN FALSE
    ELSE IF overlaps_with(h[all_tasks[k].task], new_task) THEN TRUE
    ELSE ScanConflicts(h, all_tasks, k + 1, new_task)

\* Scheduler.check_conflicts(new_task)
check_conflicts(h, bound, pets, opets, new_task) ==
    ScanConflicts(h, get_all_tasks(bound, pets, opets), 1, new_task)

\* strftime("%I:%M %p"): 12-hour clock hour, minute, AM or PM
FormatTime(t) ==
    LET hour == (t % DayMinutes) \div 60
    IN  <<IF hour % 12 = 0 THEN 12 ELSE hour % 12,
          t % 60,
          IF hour < 12 THEN "AM" ELSE "PM">>

\* the conflict type with the comparison inverted
ConflictTypeInverted(pet_name_1, pet_name_2) ==
    IF pet_name_1 # pet_name_2 THEN "SAME PET" ELSE "DIFFERENT PETS"

\* detect_all_conflicts: the conflict type of a reported pair
ConflictType(pet_name_1, pet_name_2) ==
    IF pet_name_1 = pet_name_2 THEN "SAME PET" ELSE "DIFFERENT PETS"

\* detect_all_conflicts: the warning built for one pair
Warning(pet_name_1, task_1, pet_name_2, task_2) ==
    [conflict_type |-> ConflictType(pet_name_1, pet_name_2),
     description_1 |-> task_1.description, pet_name_1 |-> pet_name_1,
     time_1 |-> FormatTime(task_1.due_time),
     description_2 |-> task_2.description, pet_name_2 |-> pet_name_2,
     time_2 |-> FormatTime(task_2.due_time)]

\* the skip taken only when both tasks are completed
SkipBothCompleted(task_1, task_2) == task_1.is_completed /\ task_2.is_completed

\* detect_all_conflicts: is the pair skipped as completed
SkipCompleted(task_1, task_2) == task_1.is_completed \/ task_2.is_completed

\* detect_all_conflicts: the two nested loops, from the pair (i, j) on
RECURSIVE ConflictsFrom(_, _, _, _)
ConflictsFrom(h, all_tasks, i, j) ==
    IF i > Len(all_tasks) THEN <<>>
    ELSE IF j > Len(all_tasks) THEN ConflictsFrom(h, all_tasks, i + 1, i + 2)
    ELSE
      LET task_1 == h[all_tasks[i].task]
          task_2 == h[all_tasks[j].task]
          here == IF SkipCompleted(task_1, task_2) THEN <<>>
                  ELSE IF overlaps_with(task_1, task_2)
                       THEN <<Warning(all_tasks[i].pet, task_1,
                                      all_tasks[j].pet, task_2)>>
                  ELSE <<>>
      IN  here \o ConflictsFrom(h, all_tasks, i, j + 1)

\* Scheduler.detect_all_conflicts()
detect_all_conflicts(h, bound, pets, opets) ==
    ConflictsFrom(h, get_all_tasks(bound, pets, opets), 1, 2)

\* generate_daily_schedule: the filter for target date and incomplete
IsCandidate(task, target_date) ==
    /\ ~task.is_completed
    /\ task.due_time # NoTime
    /\ DateOf(task.due_time) = DateOf(target_date)

\* a priority_order with Low first
PriorityOrderLowFirst(priority) ==
    CASE priority = HIGH -> 3
      [] priority = MEDIUM -> 2
      [] priority = LOW -> 1

\* generate_daily_schedule: priority_order
PriorityOrder(priority) ==
    CASE priority = HIGH -> 1
      [] priority = MEDIUM -> 2
      [] priority = LOW -> 3

\* a sort key without the priority
ScheduleKeyTimeOnly(task) == <<task.due_time>>

\* generate_daily_schedule: the sort key (priority_order, due_time)
ScheduleKey(task) == <<PriorityOrder(task.priority), task.due_time>>

\* the fit test without the minutes already used
FitsIgnoringUsed(used_minutes, task, available_minutes) ==
    task.duration_minutes <= available_minutes

\* generate_daily_schedule: does the task fit in what is left
Fits(used_minutes, task, available_minutes) ==
    used_minutes + task.duration_minutes <= available_minutes

\* a walk that ends at the first task that does not fit
RECURSIVE PackUntilMiss(_, _, _, _, _)
PackUntilMiss(h, tasks, k, used_minutes, available_minutes) ==
    IF k > Len(tasks) THEN <<>>
    ELSE IF Fits(used_minutes, h[tasks[k].task], available_minutes)
         THEN <<tasks[k]>>
              \o PackUntilMiss(h, tasks, k + 1,
                      used_minutes + h[tasks[k].task].duration_minutes,
                      available_minutes)
    ELSE <<>>

\* generate_daily_schedule: the greedy walk from position k on
RECURSIVE Pack(_, _, _, _, _)
Pack(h, tasks, k, used_minutes, available_minutes) ==
    IF k > Len(tasks) THEN <<>>
    ELSE IF Fits(used_minutes, h[tasks[k].task], available_minutes)
         THEN <<tasks[k]>>
              \o Pack(h, tasks, k + 1,
                      used_minutes + h[tasks[k].task].duration_minutes,
                      available_minutes)
    ELSE Pack(h, tasks, k + 1, used_minutes, available_minutes)

\* Scheduler.generate_daily_schedule(available_minutes, target_date)
generate_daily_schedule(h, bound, pets, opets, available_minutes, target_date) ==
    IF ~bound THEN <<>>
    ELSE
      LET tasks == SelectSeq(get_all_tasks(bound, pets, opets),
                             LAMBDA x : IsCandidate(h[x.task], target_date))
          ordered == sorted(tasks,
                       [k \in 1..Len(tasks) |-> ScheduleKey(h[tasks[k].task])])
      IN  Pack(h, ordered, 1, 0, available_minutes)

\* a generate_task_id that does not advance the counter
generate_task_id_no_increment(st) ==
    [task_id |-> st.next, st |-> st]

\* Scheduler.generate_task_id on st = [tasks, pets, next, count]
generate_task_id(st) ==
    [task_id |-> st.next, st |-> [st EXCEPT !.next = @ + 1]]

\* a newly constructed Task object: its reference is the next heap index
NewRef(st) == Len(st.tasks) + 1
Alloc(st, task) == [st EXCEPT !.tasks = Append(@, task)]

\* complete_task: next_due_time by frequency, NoTime when none applies
NextDueTime(task) ==
    CASE task.frequency = DAILY -> task.due_time + DayMinutes
      [] task.frequency = WEEKLY -> task.due_time + 7 * DayMinutes
      [] task.frequency = MONTHLY -> task.due_time + 30 * DayMinutes
      [] OTHER -> NoTime

\* complete_task: does the task recur (the first early return is not taken)
Recurs(task) == ~(task.frequency = ONE_TIME \/ task.due_time = NoTime)

\* Scheduler.complete_task(task, pet_name): the heaps after the call and the
\* returned value
complete_task(st, bound, opets, t, pet_name) ==
    LET s1 == [st EXCEPT !.tasks = mark_complete(@, t)]
        task == s1.tasks[t]
    IN  IF ~Recurs(task) THEN [st |-> s1, val |-> FALSE]
        ELSE IF NextDueTime(task) = NoTime THEN [st |-> s1, val |-> FALSE]
        ELSE
          LET g == generate_task_id(s1)
              new_task == Task(g.task_id, task.description,
                               task.duration_minutes, task.priority,
                               NextDueTime(task), task.frequency, FALSE)
              pet == get_pet_by_name(bound, g.st.pets, opets, pet_name)
          IN  IF pet # 0
              THEN [st |-> add_task(Alloc(g.st, new_task), pet, NewRef(g.st)),
                    val |-> TRUE]
              ELSE [st |-> g.st, val |-> FALSE]

\* an expansion that drops the new task when the pet already holds the
\* occurrence
RECURSIVE ExpandTaskDeduplicated(_, _, _, _, _, _)
ExpandTaskDeduplicated(st, p, t, current_date, start_date, end_date) ==
    IF ~(current_date <= end_date) THEN st
    ELSE
      LET task == st.tasks[t]
          g == generate_task_id(st)
          new_task == Task(g.task_id, task.description,
                           task.duration_minutes, task.priority,
                           current_date, task.frequency, FALSE)
          held == \E i \in DOMAIN st.pets[p].tasks :
                    /\ st.tasks[st.pets[p].tasks[i]].due_time = current_date
                    /\ st.tasks[st.pets[p].tasks[i]].description
                         = task.description
          s1 == IF current_date >= start_date
                THEN IF held THEN g.st
                     ELSE [add_task(Alloc(g.st, new_task), p, NewRef(g.st))
                             EXCEPT !.count = @ + 1]
                ELSE st
      IN  ExpandTaskDeduplicated(s1, p, t,
                                 current_date + Period(task.frequency),
                                 start_date, end_date)

\* an expansion that creates no task for the task's own due time
RECURSIVE ExpandTaskFromNext(_, _, _, _, _, _)
ExpandTaskFromNext(st, p, t, current_date, start_date, end_date) ==
    IF ~(current_date <= end_date) THEN st
    ELSE
      LET task == st.tasks[t]
          g == generate_task_id(st)
          new_task == Task(g.task_id, task.description,
                           task.duration_minutes, task.priority,
                           current_date, task.frequency, FALSE)
          s1 == IF current_date >= start_date /\ current_date # task.due_time
                THEN [add_task(Alloc(g.st, new_task), p, NewRef(g.st))
                        EXCEPT !.count = @ + 1]
                ELSE st
      IN  ExpandTaskFromNext(s1, p, t, current_date + Period(task.frequency),
                             start_date, end_date)
\* generate_recurring_tasks: the while loop over current_date for one task
RECURSIVE ExpandTask(_, _, _, _, _, _)
ExpandTask(st, p, t, current_date, start_date, end_date) ==
    IF ~(current_date <= end_date) THEN st
    ELSE
      LET task == st.tasks[t]
          g == generate_task_id(st)
          new_task == Task(g.task_id, task.description,
                           task.duration_minutes, task.priority,
                           current_date, task.frequency, FALSE)
          s1 == IF current_date >= start_date
                THEN [add_task(Alloc(g.st, new_task), p, NewRef(g.st))
                        EXCEPT !.count = @ + 1]
                ELSE st
      IN  ExpandTask(s1, p, t, current_date + Period(task.frequency),
                     start_date, end_date)

\* generate_recurring_tasks: the loop over list(pet.tasks), the snapshot refs
RECURSIVE ExpandPet(_, _, _, _, _, _)
ExpandPet(st, p, refs, k, start_date, end_date) ==
    IF k > Len(refs) THEN st
    ELSE
      LET task == st.tasks[refs[k]]
          s1 == IF task.frequency = ONE_TIME \/ task.due_time = NoTime THEN st
                ELSE ExpandTask(st, p, refs[k], task.due_time,
                                start_date, end_date)
      IN  ExpandPet(s1, p, refs, k + 1, start_date, end_date)

\* generate_recurring_tasks: the loop over owner.pets
RECURSIVE ExpandOwner(_, _, _, _, _)
ExpandOwner(st, opets, k, start_date, end_date) ==
    IF k > Len(opets) THEN st
    ELSE ExpandOwner(
           ExpandPet(st, opets[k], st.pets[opets[k]].tasks, 1,
                     start_date, end_date),
           opets, k + 1, start_date, end_date)

\* Scheduler.generate_recurring_tasks(start_date, end_date)
generate_recurring_tasks(st, bound, opets, start_date, end_date) ==
    IF ~bound THEN [st |-> st, val |-> 0]
    ELSE LET s1 == ExpandOwner([st EXCEPT !.count = 0], opets, 1,
                               start_date, end_date)
         IN  [st |-> s1, val |-> s1.count]

-----------------------------------------------------------------------------
(* The session: what the client calls, with the values it passes *)

PetNames == {"Rex", "Mia"}
\* a name no pet carries
LookupNames == PetNames \cup {"Zed"}

\* the Task constructions of the client, without the id
LifeTasks ==
    { [description |-> "walk", duration_minutes |-> 30, priority |-> HIGH,
       due_time |-> 540, frequency |-> DAILY],
      [description |-> "groom", duration_minutes |-> 45, priority |-> MEDIUM,
       due_time |-> 540, frequency |-> WEEKLY],
      [description |-> "pill", duration_minutes |-> 20, priority |-> LOW,
       due_time |-> 600, frequency |-> MONTHLY],
      [description |-> "vet", duration_minutes |-> 30, priority |-> HIGH,
       due_time |-> 570, frequency |-> ONE_TIME],
      [description |-> "walk", duration_minutes |-> 30, priority |-> HIGH,
       due_time |-> NoTime, frequency |-> DAILY] }

\* ids the client writes by hand (Task(1, ...), Task(2, ...) in the tests)
ManualIds == {2}

\* (start_date, end_date) ranges passed to generate_recurring_tasks
Ranges == { <<0, 600>>, <<541, 2000>>, <<700, 600>> }

State == [tasks |-> task_objs, pets |-> pet_objs, next |-> next_task_id,
          count |-> 0]

\* entries of all pets' task lists together
RECURSIVE Attached(_, _)
Attached(pets, k) ==
    IF k > Len(pets) THEN 0 ELSE Len(pets[k].tasks) + Attached(pets, k + 1)

Commit(st) ==
    /\ Len(st.tasks) <= MaxTasks
    /\ Attached(st.pets, 1) <= MaxTasks
    /\ st.next <= MaxId + 1
    /\ task_objs' = st.tasks
    /\ pet_objs' = st.pets
    /\ next_task_id' = st.next

Init ==
    /\ task_objs = <<>>
    /\ pet_objs = <<>>
    /\ owner_pets = <<>>
    /\ sched_owner = FALSE
    /\ next_task_id = 1
    /\ ret = [op |-> "init", arg |-> <<>>, val |-> 0]

\* Pet(name, species, age) then owner.add_pet(pet)   (app.py add_pet_form)
AddPet ==
    \E name \in PetNames :
      /\ Len(owner_pets) < MaxPets
      /\ PetValid(name, "Dog", 1)
      /\ pet_objs' = Append(pet_objs, Pet(name, "Dog", 1))
      /\ owner_pets' = Append(owner_pets, Len(pet_objs) + 1)
      /\ ret' = [op |-> "add_pet", arg |-> <<name>>, val |-> 0]
      /\ UNCHANGED <<task_objs, sched_owner, next_task_id>>

\* owner.add_pet(pet) with a Pet already in the list
AddPetAgain ==
    \E p \in DOMAIN pet_objs :
      /\ Len(owner_pets) < MaxPets
      /\ owner_pets' = Append(owner_pets, p)
      /\ ret' = [op |-> "add_pet", arg |-> <<pet_objs[p].name>>, val |-> 0]
      /\ UNCHANGED <<task_objs, pet_objs, sched_owner, next_task_id>>

\* Task(id=scheduler.generate_task_id(), ...) then pet.add_task(task)
AddTaskFreshId ==
    \E p \in DOMAIN pet_objs, f \in LifeTasks :
      LET g == generate_task_id(State)
          task == Task(g.task_id, f.description, f.duration_minutes,
                       f.priority, f.due_time, f.frequency, FALSE)
      IN  /\ Len(task_objs) < MaxClientTasks
          /\ TaskValid(f.duration_minutes, f.description)
          /\ Commit(add_task(Alloc(g.st, task), p, NewRef(g.st)))
          /\ ret' = [op |-> "add_task", arg |-> <<p, NewRef(g.st)>>,
                     val |-> g.task_id]
          /\ UNCHANGED <<owner_pets, sched_owner>>

\* Task(id, ...) with an id written by hand, then pet.add_task(task)
AddTaskManualId ==
    \E p \in DOMAIN pet_objs, f \in LifeTasks, id \in ManualIds :
      LET task == Task(id, f.description, f.duration_minutes,
                       f.priority, f.due_time, f.frequency, FALSE)
      IN  /\ Len(task_objs) < MaxClientTasks
          /\ TaskValid(f.duration_minutes, f.description)
          /\ Commit(add_task(Alloc(State, task), p, NewRef(State)))
          /\ ret' = [op |-> "add_task", arg |-> <<p, NewRef(State)>>,
                     val |-> 0]
          /\ UNCHANGED <<owner_pets, sched_owner>>

\* pet.add_task(task) with a Task some pet already holds
AddTaskAgain ==
    \E p \in DOMAIN pet_objs, t \in DOMAIN task_objs :
      /\ Commit(add_task(State, p, t))
      /\ ret' = [op |-> "add_task", arg |-> <<p, t>>, val |-> 0]
      /\ UNCHANGED <<owner_pets, sched_owner>>

\* task.mark_complete()   (app.py "Mark Done")
MarkComplete ==
    \E t \in DOMAIN task_objs :
      /\ task_objs' = mark_complete(task_objs, t)
      /\ ret' = [op |-> "mark_complete", arg |-> <<t>>, val |-> 0]
      /\ UNCHANGED <<pet_objs, owner_pets, sched_owner, next_task_id>>

\* scheduler.set_owner(owner)
SetOwner ==
    /\ sched_owner' = TRUE
    /\ next_task_id' = SyncedCounter(task_objs, pet_objs, owner_pets)
    /\ ret' = [op |-> "set_owner", arg |-> <<>>, val |-> 0]
    /\ UNCHANGED <<task_objs, pet_objs, owner_pets>>

\* scheduler.generate_task_id()
GenerateTaskId ==
    LET g == generate_task_id(State)
    IN  /\ Commit(g.st)
        /\ ret' = [op |-> "generate_task_id", arg |-> <<>>, val |-> g.task_id]
        /\ UNCHANGED <<owner_pets, sched_owner>>

\* scheduler.complete_task(task, pet_name)
CompleteTask ==
    \E t \in DOMAIN task_objs, pet_name \in LookupNames :
      LET r == complete_task(State, sched_owner, owner_pets, t, pet_name)
      IN  /\ Commit(r.st)
          /\ ret' = [op |-> "complete_task", arg |-> <<t, pet_name>>,
                     val |-> r.val]
          /\ UNCHANGED <<owner_pets, sched_owner>>

\* scheduler.generate_recurring_tasks(start_date, end_date)
GenerateRecurringTasks ==
    \E range \in Ranges :
      LET r == generate_recurring_tasks(State, sched_owner, owner_pets,
                                        range[1], range[2])
      IN  /\ Commit(r.st)
          /\ ret' = [op |-> "generate_recurring_tasks", arg |-> range,
                     val |-> r.val]
          /\ UNCHANGED <<owner_pets, sched_owner>>

Next ==
    \/ AddPet
    \/ AddPetAgain
    \/ AddTaskFreshId
    \/ AddTaskManualId
    \/ AddTaskAgain
    \/ MarkComplete
    \/ SetOwner
    \/ GenerateTaskId
    \/ CompleteTask
    \/ GenerateRecurringTasks

Spec == Init /\ [][Next]_vars

-----------------------------------------------------------------------------
(* The query operations on owner states the client has built *)

MaxSortTasks == 3       \* length of a list handed to a sort
MaxConflictTasks == 3   \* tasks of the Owner when conflicts are detected
MaxScheduleTasks == 3   \* tasks of the Owner when a day is scheduled

\* a Task the client constructed with id i from the form values f
TaskOf(i, f) ==
    Task(i, f.description, f.duration_minutes, f.priority, f.due_time,
         f.frequency, f.is_completed)

Form(description, duration_minutes, priority, due_time, is_completed) ==
    [description |-> description, duration_minutes |-> duration_minutes,
     priority |-> priority, due_time |-> due_time, frequency |-> ONE_TIME,
     is_completed |-> is_completed]

\* the references i with where[i] = p, ascending: the order of pet.add_task
RECURSIVE RefsOf(_, _, _)
RefsOf(where, p, i) ==
    IF i > Len(where) THEN <<>>
    ELSE (IF where[i] = p THEN <<i>> ELSE <<>>) \o RefsOf(where, p, i + 1)

\* The client added the pets named names[p] to the Owner, constructed the
\* tasks forms[i] and added each to the pet where[i]; then set_owner.
Built(forms, where, names) ==
    /\ task_objs = [i \in 1..Len(forms) |->
                      [TaskOf(i, forms[i]) EXCEPT !.pet_name = names[where[i]]]]
    /\ pet_objs = [p \in 1..Len(names) |->
                     [Pet(names[p], "Dog", 1) EXCEPT !.tasks = RefsOf(where, p, 1)]]
    /\ owner_pets = [p \in 1..Len(names) |-> p]
    /\ sched_owner = TRUE
    /\ next_task_id = Len(forms) + 1
    /\ ret = [op |-> "init", arg |-> <<>>, val |-> 0]

(* sorting *)

SortForms ==
    { Form("walk", 30, priority, due_time, FALSE) :
        priority \in {HIGH, MEDIUM, LOW}, due_time \in {NoTime, 540, 600} }

\* The client constructed tasks and holds them in a list, no Owner involved.
InitSort ==
    \E n \in 0..MaxSortTasks : \E forms \in [1..n -> SortForms] :
      /\ task_objs = [i \in 1..n |-> TaskOf(i, forms[i])]
      /\ pet_objs = <<>>
      /\ owner_pets = <<>>
      /\ sched_owner = FALSE
      /\ next_task_id = 1
      /\ ret = [op |-> "init", arg |-> <<>>, val |-> 0]

Frozen == UNCHANGED <<task_objs, pet_objs, owner_pets, sched_owner, next_task_id>>

\* the list of every constructed task, in construction order
AllRefs == [i \in 1..Len(task_objs) |-> i]

\* scheduler.sort_tasks_by_time(tasks)
SortTasksByTime ==
    /\ ret' = [op |-> "sort_tasks_by_time", arg |-> AllRefs,
               val |-> sort_tasks_by_time(task_objs, AllRefs)]
    /\ Frozen

\* scheduler.sort_by_priority_and_time(tasks)
SortByPriorityAndTime ==
    /\ ret' = [op |-> "sort_by_priority_and_time", arg |-> AllRefs,
               val |-> sort_by_priority_and_time(task_objs, AllRefs)]
    /\ Frozen

NextSort == SortTasksByTime \/ SortByPriorityAndTime

SpecSort == InitSort /\ [][NextSort]_vars

(* conflicts *)

ConflictForms ==
    { Form("walk", 30, HIGH, 540, FALSE), Form("feed", 15, HIGH, 540, FALSE),
      Form("play", 30, MEDIUM, 555, FALSE), Form("groom", 30, LOW, 570, FALSE),
      Form("pill", 30, LOW, NoTime, FALSE),
      Form("walk", 30, HIGH, 540, TRUE), Form("play", 30, MEDIUM, 555, TRUE) }

\* the first pet holds the first m tasks, the second pet the others
InitConflicts ==
    \E n \in 0..MaxConflictTasks :
      \E forms \in [1..n -> ConflictForms], m \in 0..n, second \in PetNames :
        Built(forms, [i \in 1..n |-> IF i <= m THEN 1 ELSE 2], <<"Rex", second>>)

\* task_a.overlaps_with(task_b)
OverlapsWith ==
    \E a \in DOMAIN task_objs, b \in DOMAIN task_objs :
      /\ ret' = [op |-> "overlaps_with", arg |-> <<a, b>>,
                 val |-> overlaps_with(task_objs[a], task_objs[b])]
      /\ Frozen

\* scheduler.detect_all_conflicts()
DetectAllConflicts ==
    /\ ret' = [op |-> "detect_all_conflicts", arg |-> <<>>,
               val |-> detect_all_conflicts(task_objs, sched_owner,
                                             pet_objs, owner_pets)]
    /\ Frozen

NextConflicts == OverlapsWith \/ DetectAllConflicts

SpecConflicts == InitConflicts /\ [][NextConflicts]_vars

(* the daily schedule *)

ScheduleForms ==
    { Form("walk", duration_minutes, priority, due_time, FALSE) :
        duration_minutes \in {20, 30}, priority \in {HIGH, MEDIUM, LOW},
        due_time \in {540, 600} }
    \cup { Form("walk", 30, HIGH, 540, TRUE), Form("walk", 30, HIGH, NoTime, FALSE),
           Form("walk", 30, HIGH, 1980, FALSE) }

AvailableMinutes == {-10, 0, 30, 50}
TargetDates == {600, 2040}

InitSchedule ==
    \E n \in 0..MaxScheduleTasks : \E forms \in [1..n -> ScheduleForms] :
      Built(forms, [i \in 1..n |-> 1], <<"Rex">>)

\* scheduler.generate_daily_schedule(available_minutes, target_date)
GenerateDailySchedule ==
    \E available_minutes \in AvailableMinutes, target_date \in TargetDates :
      /\ ret' = [op |-> "generate_daily_schedule",
                 arg |-> <<available_minutes, target_date>>,
                 val |-> generate_daily_schedule(task_objs, sched_owner,
                            pet_objs, owner_pets, available_minutes, target_date)]
      /\ Frozen

NextSchedule == GenerateDailySchedule

SpecSchedule == InitSchedule /\ [][NextSchedule]_vars

(* the daily schedule of an Owner with two pets *)

MaxGreedyTasks == 3     \* tasks of the two pets together

GreedyForms ==
    { Form("walk", 20, HIGH, 540, FALSE), Form("walk", 30, HIGH, 540, FALSE),
      Form("feed", 30, MEDIUM, 540, FALSE), Form("play", 20, LOW, 600, FALSE),
      Form("walk", 30, HIGH, 540, TRUE), Form("walk", 30, HIGH, 1980, FALSE) }

\* Rex holds the first m tasks, Mia the others
InitGreedy ==
    \E n \in 0..MaxGreedyTasks :
      \E forms \in [1..n -> GreedyForms], m \in 0..n :
        Built(forms, [i \in 1..n |-> IF i <= m THEN 1 ELSE 2], <<"Rex", "Mia">>)

SpecGreedy == InitGreedy /\ [][NextSchedule]_vars

(* the queries and the operations of a Scheduler with or without an Owner *)

MaxQueryTasks == 2      \* tasks of the Owner when the queries are asked

QueryForms ==
    { [description |-> "walk", duration_minutes |-> 30, priority |-> HIGH,
       due_time |-> 540, frequency |-> DAILY, is_completed |-> FALSE],
      [description |-> "feed", duration_minutes |-> 15, priority |-> MEDIUM,
       due_time |-> 555, frequency |-> ONE_TIME, is_completed |-> FALSE],
      [description |-> "pill", duration_minutes |-> 20, priority |-> LOW,
       due_time |-> NoTime, frequency |-> WEEKLY, is_completed |-> TRUE],
      [description |-> "groom", duration_minutes |-> 30, priority |-> LOW,
       due_time |-> 540, frequency |-> ONE_TIME, is_completed |-> TRUE] }

\* The client built the Owner as in Built, and the Scheduler is a new one on
\* which set_owner has not been called.
BuiltUnbound(forms, where, names) ==
    /\ task_objs = [i \in 1..Len(forms) |->
                      [TaskOf(i, forms[i]) EXCEPT !.pet_name = names[where[i]]]]
    /\ pet_objs = [p \in 1..Len(names) |->
                     [Pet(names[p], "Dog", 1) EXCEPT !.tasks = RefsOf(where, p, 1)]]
    /\ owner_pets = [p \in 1..Len(names) |-> p]
    /\ sched_owner = FALSE
    /\ next_task_id = 1
    /\ ret = [op |-> "init", arg |-> <<>>, val |-> 0]

InitQueries ==
    \E n \in 0..MaxQueryTasks :
      \E forms \in [1..n -> QueryForms], m \in 0..n, second \in PetNames :
        LET where == [i \in 1..n |-> IF i <= m THEN 1 ELSE 2]
        IN  \/ Built(forms, where, <<"Rex", second>>)
            \/ BuiltUnbound(forms, where, <<"Rex", second>>)

\* scheduler.get_all_tasks()
GetAllTasks ==
    /\ ret' = [op |-> "get_all_tasks", arg |-> <<>>,
               val |-> get_all_tasks(sched_owner, pet_objs, owner_pets)]
    /\ Frozen

\* scheduler.get_pet_by_name(name)
GetPetByName ==
    \E name \in LookupNames :
      /\ ret' = [op |-> "get_pet_by_name", arg |-> <<name>>,
                 val |-> get_pet_by_name(sched_owner, pet_objs, owner_pets, name)]
      /\ Frozen

\* scheduler.filter_tasks(pet_name, completed)
FilterTasks ==
    \E pet_name \in LookupNames \cup {NoPet},
       completed \in {NoFlag, <<TRUE>>, <<FALSE>>} :
      /\ ret' = [op |-> "filter_tasks", arg |-> <<pet_name, completed>>,
                 val |-> filter_tasks(task_objs, sched_owner, pet_objs,
                                      owner_pets, pet_name, completed)]
      /\ Frozen

\* scheduler.check_conflicts(new_task), new_task constructed by the client
\* and attached to no pet
CheckConflicts ==
    \E f \in QueryForms :
      /\ ret' = [op |-> "check_conflicts", arg |-> <<f>>,
                 val |-> check_conflicts(task_objs, sched_owner, pet_objs,
                                         owner_pets, TaskOf(0, f))]
      /\ Frozen

NextQueries ==
    \/ GetAllTasks
    \/ GetPetByName
    \/ FilterTasks
    \/ CheckConflicts
    \/ DetectAllConflicts
    \/ GenerateDailySchedule
    \/ CompleteTask
    \/ GenerateRecurringTasks

SpecQueries == InitQueries /\ [][NextQueries]_vars

(* the two recurrence operations on owners with recurring tasks *)

MaxRecurTasks == 4      \* Task objects on the heap, created ones included
MaxRecurId == 5         \* largest value generate_task_id hands out here

RecurForms ==
    { [description |-> "walk", duration_minutes |-> 30, priority |-> HIGH,
       due_time |-> 540, frequency |-> DAILY, is_completed |-> FALSE],
      [description |-> "groom", duration_minutes |-> 45, priority |-> MEDIUM,
       due_time |-> 540, frequency |-> WEEKLY, is_completed |-> FALSE],
      [description |-> "pill", duration_minutes |-> 20, priority |-> LOW,
       due_time |-> 600, frequency |-> MONTHLY, is_completed |-> FALSE],
      [description |-> "vet", duration_minutes |-> 30, priority |-> HIGH,
       due_time |-> 570, frequency |-> ONE_TIME, is_completed |-> FALSE],
      [description |-> "walk", duration_minutes |-> 30, priority |-> HIGH,
       due_time |-> NoTime, frequency |-> DAILY, is_completed |-> FALSE] }

\* (start_date, end_date): around the next day, the next week, the next
\* 30 days, and an empty range
RecurRanges ==
    { <<0, 2000>>, <<541, 2000>>, <<600, 11000>>, <<601, 44000>>,
      <<700, 600>> }

InitRecurrence ==
    \E f \in RecurForms, p \in {1, 2}, second \in PetNames :
      \/ Built(<<f>>, <<p>>, <<"Rex", second>>)
      \/ BuiltUnbound(<<f>>, <<p>>, <<"Rex", second>>)

CommitRecurrence(st) ==
    /\ Len(st.tasks) <= MaxRecurTasks
    /\ st.next <= MaxRecurId + 1
    /\ task_objs' = st.tasks
    /\ pet_objs' = st.pets
    /\ next_task_id' = st.next

\* scheduler.complete_task(task, pet_name)
CompleteTaskOf ==
    \E t \in DOMAIN task_objs, pet_name \in LookupNames :
      LET r == complete_task(State, sched_owner, owner_pets, t, pet_name)
      IN  /\ CommitRecurrence(r.st)
          /\ ret' = [op |-> "complete_task", arg |-> <<t, pet_name>>,
                     val |-> r.val]
          /\ UNCHANGED <<owner_pets, sched_owner>>

\* scheduler.generate_recurring_tasks(start_date, end_date)
GenerateRecurringTasksIn ==
    \E range \in RecurRanges :
      LET r == generate_recurring_tasks(State, sched_owner, owner_pets,
                                        range[1], range[2])
      IN  /\ CommitRecurrence(r.st)
          /\ ret' = [op |-> "generate_recurring_tasks", arg |-> range,
                     val |-> r.val]
          /\ UNCHANGED <<owner_pets, sched_owner>>

NextRecurrence ==
    \/ CompleteTaskOf
    \/ GenerateRecurringTasksIn
    \/ DetectAllConflicts

SpecRecurrence == InitRecurrence /\ [][NextRecurrence]_vars

(* the daily schedules of two Owners, each with its own Scheduler *)

MaxTierTasks == 3       \* tasks of the two Owners together

TierForms ==
    { Form("walk", 20, HIGH, 540, FALSE), Form("walk", 30, HIGH, 540, FALSE),
      Form("walk", 30, HIGH, 600, FALSE), Form("feed", 20, MEDIUM, 540, FALSE),
      Form("feed", 30, MEDIUM, 600, FALSE), Form("play", 20, LOW, 540, FALSE),
      Form("play", 30, LOW, 540, FALSE) }

\* the pets of the second Owner; owner_pets holds those of the first
SecondOwnerPets == <<2>>

\* The first Owner has the pet holding the first m tasks, the second Owner
\* the pet holding the others; each has a Scheduler bound to it.
InitTiers ==
    \E n \in 0..MaxTierTasks : \E forms \in [1..n -> TierForms], m \in 0..n :
      LET where == [i \in 1..n |-> IF i <= m THEN 1 ELSE 2]
      IN  /\ task_objs = [i \in 1..n |->
                [TaskOf(i, forms[i]) EXCEPT !.pet_name = "Rex"]]
          /\ pet_objs = [p \in 1..2 |->
                [Pet("Rex", "Dog", 1) EXCEPT !.tasks = RefsOf(where, p, 1)]]
          /\ owner_pets = <<1>>
          /\ sched_owner = TRUE
          /\ next_task_id = n + 1
          /\ ret = [op |-> "init", arg |-> <<>>, val |-> 0]

\* generate_daily_schedule(available_minutes, target_date) on the Scheduler
\* of each Owner, with the same arguments
GenerateDailySchedules ==
    \E available_minutes \in AvailableMinutes, target_date \in TargetDates :
      /\ ret' = [op |-> "generate_daily_schedules",
                 arg |-> <<available_minutes, target_date>>,
                 val |-> <<generate_daily_schedule(task_objs, sched_owner,
                             pet_objs, owner_pets, available_minutes,
                             target_date),
                           generate_daily_schedule(task_objs, TRUE,
                             pet_objs, SecondOwnerPets, available_minutes,
                             target_date)>>]
      /\ Frozen

NextTiers == GenerateDailySchedules

SpecTiers == InitTiers /\ [][NextTiers]_vars

(* a session that binds the Scheduler once and takes every new id from it *)

MaxLoadedTasks == 2     \* tasks of the Owner when set_owner is called

\* the ids of the tasks the Owner holds when the Scheduler is bound
LoadedIds == {1, 2, 4}

LoadedForms ==
    { [description |-> "walk", duration_minutes |-> 30, priority |-> HIGH,
       due_time |-> 540, frequency |-> DAILY, is_completed |-> FALSE],
      [description |-> "vet", duration_minutes |-> 30, priority |-> HIGH,
       due_time |-> 570, frequency |-> ONE_TIME, is_completed |-> FALSE] }

\* An Owner whose tasks carry the ids ids[i], pairwise distinct, and a new
\* Scheduler on which set_owner has not been called.
InitFreshIds ==
    \E n \in 0..MaxLoadedTasks :
      \E forms \in [1..n -> LoadedForms], ids \in [1..n -> LoadedIds] :
        LET where == [i \in 1..n |-> 1]
        IN  /\ \A i, j \in 1..n : i # j => ids[i] # ids[j]
            /\ task_objs = [i \in 1..n |->
                  [TaskOf(ids[i], forms[i]) EXCEPT !.pet_name = "Rex"]]
            /\ pet_objs = <<[Pet("Rex", "Dog", 1)
                               EXCEPT !.tasks = RefsOf(where, 1, 1)]>>
            /\ owner_pets = <<1>>
            /\ sched_owner = FALSE
            /\ next_task_id = 1
            /\ ret = [op |-> "init", arg |-> <<>>, val |-> 0]

\* scheduler.set_owner(owner), called once
SetOwnerOnce == ~sched_owner /\ SetOwner

\* Task(id=scheduler.generate_task_id(), ...) then pet.add_task(task), on a
\* Scheduler that has its Owner   (app.py add_task_form)
AddTaskWithGeneratedId ==
    \E p \in DOMAIN pet_objs, f \in LoadedForms :
      LET g == generate_task_id(State)
          task == TaskOf(g.task_id, f)
      IN  /\ sched_owner
          /\ TaskValid(f.duration_minutes, f.description)
          /\ CommitRecurrence(add_task(Alloc(g.st, task), p, NewRef(g.st)))
          /\ ret' = [op |-> "add_task", arg |-> <<p, NewRef(g.st)>>,
                     val |-> g.task_id]
          /\ UNCHANGED <<owner_pets, sched_owner>>

NextFreshIds ==
    \/ SetOwnerOnce
    \/ AddTaskWithGeneratedId
    \/ CompleteTaskOf
    \/ GenerateRecurringTasksIn

SpecFreshIds == InitFreshIds /\ [][NextFreshIds]_vars

(* a session with every core operation, mutating and reading *)

NextContainers ==
    \/ AddPet
    \/ AddPetAgain
    \/ AddTaskFreshId
    \/ AddTaskAgain
    \/ MarkComplete
    \/ SetOwner
    \/ CompleteTask
    \/ GenerateRecurringTasks
    \/ SortTasksByTime
    \/ SortByPriorityAndTime
    \/ FilterTasks
    \/ CheckConflicts
    \/ DetectAllConflicts
    \/ GenerateDailySchedule

SpecContainers == Init /\ [][NextContainers]_vars

(* constructions with values the constructors refuse *)

TaskDescriptions == {"", "walk"}
TaskDurations == {-5, 0, 1, 30}
NewPetNames == {"", "Mia"}
PetSpecies == {"", "Cat"}
PetAges == {-1, 0, 3}

\* an Owner with the pet Rex and at most one task, the Scheduler bound or not
InitConstruct ==
    \E n \in 0..1 : \E forms \in [1..n -> QueryForms] :
      \/ Built(forms, [i \in 1..n |-> 1], <<"Rex">>)
      \/ BuiltUnbound(forms, [i \in 1..n |-> 1], <<"Rex">>)

\* task = Task(id, description, duration_minutes, ...); pet.add_task(task):
\* an exception of the constructor ends the statement sequence
NewTask ==
    \E p \in DOMAIN pet_objs, id \in ManualIds,
       description \in TaskDescriptions, duration_minutes \in TaskDurations :
      LET raised == TaskRaises(duration_minutes, description)
          task == Task(id, description, duration_minutes, HIGH, 540,
                       ONE_TIME, FALSE)
      IN  /\ ret' = [op |-> "Task", arg |-> <<duration_minutes, description>>,
                     val |-> raised]
          /\ IF raised # NoError
             THEN UNCHANGED <<task_objs, pet_objs, next_task_id>>
             ELSE Commit(add_task(Alloc(State, task), p, NewRef(State)))
          /\ UNCHANGED <<owner_pets, sched_owner>>

\* pet = Pet(name, species, age); owner.add_pet(pet)
NewPet ==
    \E name \in NewPetNames, species \in PetSpecies, age \in PetAges :
      LET raised == PetRaises(name, species, age)
      IN  /\ ret' = [op |-> "Pet", arg |-> <<name, species, age>>,
                     val |-> raised]
          /\ IF raised # NoError
             THEN UNCHANGED <<pet_objs, owner_pets>>
             ELSE /\ Len(owner_pets) < MaxPets
                  /\ pet_objs' = Append(pet_objs, Pet(name, species, age))
                  /\ owner_pets' = Append(owner_pets, Len(pet_objs) + 1)
          /\ UNCHANGED <<task_objs, sched_owner, next_task_id>>

NextConstruct == NewTask \/ NewPet

SpecConstruct == InitConstruct /\ [][NextConstruct]_vars

(* loading a snapshot at the start of a session *)

MaxSnapshotItems == 1   \* pets in a snapshot, and tasks of a pet in it

\* lists of at most MaxSnapshotItems members of a set
ListsOf(S) == UNION { [1..n -> S] : n \in 0..MaxSnapshotItems }

SnapshotTasks ==
    [priority : {JAbsent, JStr("high"), JStr("urgent")},
     description : {JStr(""), JStr("walk")},
     duration_minutes : {JInt(0), JInt(30), JStr("30")},
     due_time : {JNull, JStr("2026-01-01T09:00:00"), JStr("soon"), JInt(5)},
     frequency : {JStr("daily"), JStr("hourly")}]

SnapshotTaskLists ==
    { [tag |-> "absent", items |-> <<>>], [tag |-> "null", items |-> <<>>] }
    \cup { [tag |-> "list", items |-> l] : l \in ListsOf(SnapshotTasks) }

SnapshotPets ==
    [tag : {"object"},
     name : {JAbsent, JStr(""), JStr("Rex")},
     species : {JAbsent, JStr("Dog")},
     age : {JInt(-1), JInt(1), JStr("3")},
     tasks : SnapshotTaskLists]
    \cup { [tag |-> "int", name |-> JAbsent, species |-> JAbsent,
             age |-> JAbsent, tasks |-> [tag |-> "absent", items |-> <<>>]] }

SnapshotPetLists ==
    { [tag |-> "absent", items |-> <<>>], [tag |-> "null", items |-> <<>>] }
    \cup { [tag |-> "list", items |-> l] : l \in ListsOf(SnapshotPets) }

\* the file at the path: missing, not JSON, or a JSON document
Snapshots ==
    { [kind |-> kind, top |-> "none", name |-> JAbsent,
       pets |-> [tag |-> "absent", items |-> <<>>]] :
        kind \in {"missing", "garbage"} }
    \cup { [kind |-> "json", top |-> top, name |-> JAbsent,
             pets |-> [tag |-> "absent", items |-> <<>>]] :
            top \in {"null", "list"} }
    \cup [kind : {"json"}, top : {"object"},
          name : {JAbsent, JStr("Ann"), JInt(7)}, pets : SnapshotPetLists]

\* the tasks of the loaded pet entries as objects, and each pet's references
LoadedTasks(pets) ==
    IF pets = <<>> \/ pets[1].tasks.tag # "list" THEN <<>>
    ELSE [k \in DOMAIN pets[1].tasks.items |->
            TaskFromDict(pets[1].tasks.items[k])]

LoadedPets(pets) ==
    [p \in DOMAIN pets |->
       [Pet(pets[p].name.s, pets[p].species.s, pets[p].age.n)
          EXCEPT !.tasks = [k \in DOMAIN LoadedTasks(pets) |-> k]]]

\* st.session_state.owner = Owner.load_from_json()   (app.py, session start)
LoadFromJson ==
    /\ task_objs = <<>> /\ pet_objs = <<>> /\ owner_pets = <<>>
    /\ ret.op = "init"
    /\ \E file \in Snapshots :
      LET r == load_from_json(file)
      IN  /\ ret' = [op |-> "load_from_json", arg |-> <<file>>,
                     val |-> [raised |-> r.raised, name |-> r.name,
                              pets |-> Len(r.pets)]]
          /\ task_objs' = LoadedTasks(r.pets)
          /\ pet_objs' = LoadedPets(r.pets)
          /\ owner_pets' = [p \in DOMAIN r.pets |-> p]
          /\ UNCHANGED <<sched_owner, next_task_id>>

NextLoad == LoadFromJson

SpecLoad == Init /\ [][NextLoad]_vars

-----------------------------------------------------------------------------
(* Task ids: C1 *)

\* the flat list of the Owner object, whether or not the Scheduler is bound
FlatTasks == OwnerAllTasks(pet_objs, owner_pets, 1)

AttachedIds == { task_objs[FlatTasks[k].task].id : k \in DOMAIN FlatTasks }

\* C1: once an Owner is bound, a value returned by generate_task_id is never
\* the id of a task attached to a pet of that Owner at the time of the call.
C1_NeverReturnsAttachedId ==
    (sched_owner /\ ret.op = "generate_task_id") => ret.val \notin AttachedIds

-----------------------------------------------------------------------------
(* complete_task: C2, C3 *)

\* the pets whose task list differs across the step
ChangedPets == { p \in DOMAIN pet_objs : pet_objs'[p].tasks # pet_objs[p].tasks }

\* the step appended exactly the new object n to the task list of pet p
AppendedTo(p, n) == pet_objs'[p].tasks = Append(pet_objs[p].tasks, n)

\* the bound Owner has a pet of that name
PetExists(name) ==
    sched_owner /\ \E k \in DOMAIN owner_pets : pet_objs[owner_pets[k]].name = name

\* the offsets the specification names: 1 day, 7 days, 30 days
SpecOffset(frequency) ==
    IF frequency = DAILY THEN 1440
    ELSE IF frequency = WEEKLY THEN 10080
    ELSE 43200

\* the step created exactly one Task object, a successor of t, held by one pet
OneSuccessor(t) ==
    LET n == Len(task_objs) + 1
        old == task_objs[t]
    IN  /\ Len(task_objs') = n
        /\ \E p \in DOMAIN pet_objs : ChangedPets = {p} /\ AppendedTo(p, n)
        /\ task_objs'[n].due_time = old.due_time + SpecOffset(old.frequency)
        /\ task_objs'[n].is_completed = FALSE
        /\ task_objs'[n].description = old.description
        /\ task_objs'[n].duration_minutes = old.duration_minutes
        /\ task_objs'[n].priority = old.priority
        /\ task_objs'[n].frequency = old.frequency

NothingCreated ==
    /\ Len(task_objs') = Len(task_objs)
    /\ ChangedPets = {}

\* C2 as stated: completing a Daily/Weekly/Monthly task with a due time, for a
\* pet name that a pet of the bound Owner carries (the other case is C3's),
\* appends exactly one successor (offset due time, another id, not completed,
\* same description, duration, priority, frequency) and returns true;
\* completing a OneTime or untimed task returns false and creates nothing;
\* either way the original is marked complete.
C2_CompleteTaskRecurrence ==
    [][ ret'.op = "complete_task" =>
          LET t == ret'.arg[1]
              old == task_objs[t]
          IN  /\ (old.frequency \in {DAILY, WEEKLY, MONTHLY}
                    /\ old.due_time # NoTime
                    /\ PetExists(ret'.arg[2]))
                 => /\ ret'.val = TRUE
                    /\ OneSuccessor(t)
                    /\ task_objs'[Len(task_objs')].id # old.id
              /\ (old.frequency = ONE_TIME \/ old.due_time = NoTime)
                 => (ret'.val = FALSE /\ NothingCreated)
              /\ task_objs'[t].is_completed
      ]_vars

\* C3: complete_task returns true iff it appended a new task to a pet; when
\* no pet of the bound Owner has the name, or no Owner is bound, it returns
\* false, changes no pet's task list, and still marks the task complete.
C3_TrueIffAppended ==
    [][ ret'.op = "complete_task" =>
          LET t == ret'.arg[1]
              n == Len(task_objs) + 1
          IN  /\ ret'.val \in BOOLEAN
              /\ ret'.val = TRUE <=>
                   (\E p \in DOMAIN pet_objs :
                      AppendedTo(p, n) /\ Len(task_objs') = n)
              /\ ret'.val = FALSE => NothingCreated
              /\ ~PetExists(ret'.arg[2]) => (ret'.val = FALSE /\ ChangedPets = {})
              /\ task_objs'[t].is_completed
      ]_vars

\* a recurring, timed task was completed for a name no pet carries, or with
\* no Owner bound: false came back and the task is complete
C3_Witness ==
    /\ ret.op = "complete_task"
    /\ ret.val = FALSE
    /\ Recurs(task_objs[ret.arg[1]])
    /\ task_objs[ret.arg[1]].is_completed
    /\ \A k \in DOMAIN owner_pets : pet_objs[owner_pets[k]].name # ret.arg[2]
    /\ owner_pets # <<>>
    /\ sched_owner

-----------------------------------------------------------------------------
(* generate_daily_schedule: C4, C5 *)

RECURSIVE SumDurations(_, _)
SumDurations(h, pairs) ==
    IF pairs = <<>> THEN 0
    ELSE h[Head(pairs).task].duration_minutes + SumDurations(h, Tail(pairs))

IsSchedule == ret.op = "generate_daily_schedule"

\* C4 as stated: for every integer available_minutes the summed duration of
\* the returned tasks is at most available_minutes.
C4_SumWithinAvailable ==
    IsSchedule => SumDurations(task_objs, ret.val) <= ret.arg[1]

\* C4 amended: for every available_minutes >= 0 the summed duration of the
\* returned tasks is at most available_minutes; for a negative
\* available_minutes the returned list is empty.
C4_SumWithinNonNegative ==
    IsSchedule =>
      /\ ret.arg[1] >= 0 => SumDurations(task_objs, ret.val) <= ret.arg[1]
      /\ ret.arg[1] < 0 => ret.val = <<>>

\* a schedule that fills the budget exactly and leaves a candidate out
C4_Witness ==
    /\ IsSchedule
    /\ ret.arg[1] = 50
    /\ SumDurations(task_objs, ret.val) = 50
    /\ \E t \in DOMAIN task_objs :
         /\ ~task_objs[t].is_completed
         /\ task_objs[t].due_time # NoTime
         /\ task_objs[t].due_time \div 1440 = ret.arg[2] \div 1440
         /\ \A k \in DOMAIN ret.val : ret.val[k].task # t

\* the tasks of the Owner that are incomplete and due on the day of date
CandidateRefs(date) ==
    { FlatTasks[k].task : k \in
        { k \in DOMAIN FlatTasks :
            LET task == task_objs[FlatTasks[k].task]
            IN  /\ ~task.is_completed
                /\ task.due_time # NoTime
                /\ task.due_time \div 1440 = date \div 1440 } }

SelectedRefs == { ret.val[k].task : k \in DOMAIN ret.val }

\* position of task t in the returned list (t is selected)
PlaceOf(t) == CHOOSE k \in DOMAIN ret.val : ret.val[k].task = t

\* position of task t in the flat baseline list
BaseOf(t) == CHOOSE k \in DOMAIN FlatTasks : FlatTasks[k].task = t

SelectedBefore(h, l) ==
    h \in SelectedRefs /\ PlaceOf(h) < PlaceOf(l)

\* C5 as stated: whenever a Medium/Low candidate is selected, every High
\* candidate of that date whose duration is at most available_minutes is
\* selected too and appears before it.
C5_HighPreferred ==
    IsSchedule =>
      \A l \in SelectedRefs : \A h \in CandidateRefs(ret.arg[2]) :
        ( /\ task_objs[l].priority \in {MEDIUM, LOW}
          /\ task_objs[h].priority = HIGH
          /\ task_objs[h].duration_minutes <= ret.arg[1] )
        => SelectedBefore(h, l)

\* the selected High candidates ordered before h: due earlier, or due at the
\* same time and earlier in the baseline list
SelectedHighBefore(h) ==
    { c \in SelectedRefs :
        /\ task_objs[c].priority = HIGH
        /\ c # h
        /\ \/ task_objs[c].due_time < task_objs[h].due_time
           \/ /\ task_objs[c].due_time = task_objs[h].due_time
              /\ BaseOf(c) < BaseOf(h) }

RECURSIVE SumOver(_, _)
SumOver(h, refs) ==
    IF refs = {} THEN 0
    ELSE LET r == CHOOSE r \in refs : TRUE
         IN  h[r].duration_minutes + SumOver(h, refs \ {r})

\* C5 amended: whenever a Medium/Low candidate is selected, every High
\* candidate of that date that fits in available_minutes after the selected
\* High candidates ordered before it is selected too and appears before it.
C5_HighPreferredWhenFits ==
    IsSchedule =>
      \A l \in SelectedRefs : \A h \in CandidateRefs(ret.arg[2]) :
        ( /\ task_objs[l].priority \in {MEDIUM, LOW}
          /\ task_objs[h].priority = HIGH
          /\ SumOver(task_objs, SelectedHighBefore(h))
               + task_objs[h].duration_minutes <= ret.arg[1] )
        => SelectedBefore(h, l)

\* a Low task due at 09:00 is selected after a High task due at 10:00
C5_Witness ==
    /\ IsSchedule
    /\ \E l \in SelectedRefs, h \in SelectedRefs :
         /\ task_objs[l].priority = LOW
         /\ task_objs[h].priority = HIGH
         /\ task_objs[l].due_time < task_objs[h].due_time
         /\ PlaceOf(h) < PlaceOf(l)

-----------------------------------------------------------------------------
(* detect_all_conflicts and overlaps_with: C6, C7, C8, C9 *)

IsConflicts == ret.op = "detect_all_conflicts"

\* the pairs of positions of the flat list that the claim says are reported
ReportedPairs ==
    { q \in (DOMAIN FlatTasks) \X (DOMAIN FlatTasks) :
        /\ q[1] < q[2]
        /\ ~task_objs[FlatTasks[q[1]].task].is_completed
        /\ ~task_objs[FlatTasks[q[2]].task].is_completed
        /\ overlaps_with(task_objs[FlatTasks[q[1]].task],
                         task_objs[FlatTasks[q[2]].task]) }

\* the place of a reported pair in the enumeration order (i, j), i ascending
\* then j ascending
RankOf(q) ==
    Cardinality({ r \in ReportedPairs :
                    r[1] < q[1] \/ (r[1] = q[1] /\ r[2] <= q[2]) })

\* what a record says about the pair q: descriptions, pet names and times
Describes(record, q) ==
    LET task_1 == task_objs[FlatTasks[q[1]].task]
        task_2 == task_objs[FlatTasks[q[2]].task]
    IN  /\ record.description_1 = task_1.description
        /\ record.description_2 = task_2.description
        /\ record.pet_name_1 = FlatTasks[q[1]].pet
        /\ record.pet_name_2 = FlatTasks[q[2]].pet
        /\ record.time_1 = FormatTime(task_1.due_time)
        /\ record.time_2 = FormatTime(task_2.due_time)

\* C6: detect_all_conflicts returns exactly one record for each pair i < j
\* of the flat list with neither task completed and the two overlapping, in
\* the order of (i, j), and none for any other pair.
C6_OneRecordPerPair ==
    IsConflicts =>
      /\ Len(ret.val) = Cardinality(ReportedPairs)
      /\ \A q \in ReportedPairs : Describes(ret.val[RankOf(q)], q)

\* a pair is reported and a pair whose windows overlap is left out because
\* one of its tasks is completed
C6_Witness ==
    /\ IsConflicts
    /\ Len(ret.val) = 1
    /\ \E i \in DOMAIN FlatTasks, j \in DOMAIN FlatTasks :
         /\ i < j
         /\ task_objs[FlatTasks[i].task].is_completed
         /\ overlaps_with(task_objs[FlatTasks[i].task],
                          task_objs[FlatTasks[j].task])

\* the Pet object holding each position of the flat list
RECURSIVE HoldersFrom(_)
HoldersFrom(k) ==
    IF k > Len(owner_pets) THEN <<>>
    ELSE [i \in 1..Len(pet_objs[owner_pets[k]].tasks) |-> owner_pets[k]]
         \o HoldersFrom(k + 1)

FlatHolders == HoldersFrom(1)

\* C7 as stated: a reported pair is labelled "same pet" exactly when one Pet
\* holds both tasks, and "different pets" exactly when two Pets hold them.
C7_LabelByHolder ==
    IsConflicts =>
      \A q \in ReportedPairs :
        /\ ret.val[RankOf(q)].conflict_type = "SAME PET"
             <=> FlatHolders[q[1]] = FlatHolders[q[2]]
        /\ ret.val[RankOf(q)].conflict_type = "DIFFERENT PETS"
             <=> FlatHolders[q[1]] # FlatHolders[q[2]]

NamesUnique ==
    \A p \in DOMAIN pet_objs, r \in DOMAIN pet_objs :
      pet_objs[p].name = pet_objs[r].name => p = r

\* C7 amended: a reported pair is labelled "same pet" exactly when the two
\* pet names are equal and "different pets" otherwise; that is the Pet
\* holding the tasks whenever the Owner's pets have distinct names.
C7_LabelByName ==
    IsConflicts =>
      \A q \in ReportedPairs :
        LET label == ret.val[RankOf(q)].conflict_type
        IN  /\ label = "SAME PET" <=> FlatTasks[q[1]].pet = FlatTasks[q[2]].pet
            /\ label = "DIFFERENT PETS"
                 <=> FlatTasks[q[1]].pet # FlatTasks[q[2]].pet
            /\ NamesUnique =>
                 (label = "SAME PET" <=> FlatHolders[q[1]] = FlatHolders[q[2]])

\* conflicts of both kinds are reported for pets of different names
C7_Witness ==
    /\ IsConflicts
    /\ NamesUnique
    /\ \E k \in DOMAIN ret.val : ret.val[k].conflict_type = "SAME PET"
    /\ \E k \in DOMAIN ret.val : ret.val[k].conflict_type = "DIFFERENT PETS"

IsOverlap == ret.op = "overlaps_with"

\* the task moved one minute earlier
Earlier(task) == [task EXCEPT !.due_time = @ - 1]

\* b starts exactly when a ends
BackToBack(a, b) ==
    /\ a.due_time # NoTime
    /\ b.due_time # NoTime
    /\ b.due_time = a.due_time + a.duration_minutes

\* the Owner holds exactly two tasks, back to back and not completed
TwoBackToBack ==
    /\ Len(FlatTasks) = 2
    /\ FlatTasks[1].task # FlatTasks[2].task
    /\ \A k \in {1, 2} : ~task_objs[FlatTasks[k].task].is_completed
    /\ \/ BackToBack(task_objs[FlatTasks[1].task], task_objs[FlatTasks[2].task])
       \/ BackToBack(task_objs[FlatTasks[2].task], task_objs[FlatTasks[1].task])

\* C8 as stated: back-to-back tasks do not conflict, and moving either of
\* them one minute earlier creates a conflict.
C8_BackToBack ==
    /\ IsOverlap =>
         LET a == task_objs[ret.arg[1]]
             b == task_objs[ret.arg[2]]
         IN  BackToBack(a, b) =>
               /\ ret.val = FALSE
               /\ ~overlaps_with(b, a)
               /\ overlaps_with(a, Earlier(b))
               /\ overlaps_with(Earlier(a), b)
    /\ (IsConflicts /\ TwoBackToBack) => ret.val = <<>>

\* C8 amended: back-to-back tasks do not conflict; moving the later one (the
\* one that starts when the other ends) one minute earlier creates a
\* conflict, moving the earlier one one minute earlier does not.
C8_BackToBackLater ==
    /\ IsOverlap =>
         LET a == task_objs[ret.arg[1]]
             b == task_objs[ret.arg[2]]
         IN  BackToBack(a, b) =>
               /\ ret.val = FALSE
               /\ ~overlaps_with(b, a)
               /\ overlaps_with(a, Earlier(b))
               /\ overlaps_with(Earlier(b), a)
               /\ ~overlaps_with(Earlier(a), b)
    /\ (IsConflicts /\ TwoBackToBack) => ret.val = <<>>

\* overlaps_with was asked of a task and the task that starts at its end
C8_Witness ==
    /\ IsOverlap
    /\ BackToBack(task_objs[ret.arg[1]], task_objs[ret.arg[2]])
    /\ ret.val = FALSE

\* C9: overlaps_with is symmetric, false when either due time is absent,
\* and otherwise true iff each task starts before the other's end, the end
\* being the due time plus the duration.
C9_OverlapSymmetric ==
    IsOverlap =>
      LET a == task_objs[ret.arg[1]]
          b == task_objs[ret.arg[2]]
      IN  /\ ret.val = overlaps_with(b, a)
          /\ (a.due_time = NoTime \/ b.due_time = NoTime) => ret.val = FALSE
          /\ (a.due_time # NoTime /\ b.due_time # NoTime) =>
               ( ret.val <=>
                   /\ a.due_time < b.due_time + b.duration_minutes
                   /\ b.due_time < a.due_time + a.duration_minutes )

\* two different tasks whose windows overlap in part
C9_Witness ==
    /\ IsOverlap
    /\ ret.val = TRUE
    /\ task_objs[ret.arg[1]].due_time < task_objs[ret.arg[2]].due_time

-----------------------------------------------------------------------------
(* sort_tasks_by_time: C10 *)

IsTimeSort == ret.op = "sort_tasks_by_time"

Count(seq, x) == Cardinality({ k \in DOMAIN seq : seq[k] = x })

\* C10: sort_tasks_by_time returns a permutation of its input with every
\* untimed task after every timed one, the timed ones in non-decreasing
\* order, and tasks of equal due time (or all untimed) in input order.
C10_SortByTime ==
    IsTimeSort =>
      LET in == ret.arg
          out == ret.val
          due(k) == task_objs[out[k]].due_time
      IN  /\ Len(out) = Len(in)
          /\ \A t \in DOMAIN task_objs : Count(out, t) = Count(in, t)
          /\ in = <<>> => out = <<>>
          /\ \A i \in DOMAIN out, j \in DOMAIN out :
               i < j =>
                 /\ ~(due(i) = NoTime /\ due(j) # NoTime)
                 /\ (due(i) # NoTime /\ due(j) # NoTime) => due(i) <= due(j)
                 /\ due(i) = due(j) =>
                      (CHOOSE k \in DOMAIN in : in[k] = out[i])
                        < (CHOOSE k \in DOMAIN in : in[k] = out[j])

\* an untimed task was first in the input and two tasks share a due time
C10_Witness ==
    /\ IsTimeSort
    /\ Len(ret.arg) = 3
    /\ task_objs[ret.arg[1]].due_time = NoTime
    /\ task_objs[ret.arg[2]].due_time = task_objs[ret.arg[3]].due_time
    /\ task_objs[ret.arg[2]].due_time # NoTime
    /\ ret.val = <<ret.arg[2], ret.arg[3], ret.arg[1]>>

-----------------------------------------------------------------------------
(* sort_by_priority_and_time: C11 *)

IsPrioritySort == ret.op = "sort_by_priority_and_time"

\* the tiers in the order the claim names them
Tiers == <<HIGH, MEDIUM, LOW>>

TierOf(t) == CHOOSE k \in DOMAIN Tiers : Tiers[k] = task_objs[t].priority

\* the members of a list of tasks that belong to a tier, in list order
InTier(tasks, k) ==
    SelectSeq(tasks, LAMBDA t : task_objs[t].priority = Tiers[k])

\* C11: the result is a permutation of the input with all High tasks before
\* all Medium tasks before all Low tasks, and for each tier the result's
\* tasks of the tier are sort_tasks_by_time of the input's tasks of the tier.
C11_TierThenTime ==
    IsPrioritySort =>
      /\ Len(ret.val) = Len(ret.arg)
      /\ \A t \in DOMAIN task_objs : Count(ret.val, t) = Count(ret.arg, t)
      /\ \A i \in DOMAIN ret.val, j \in DOMAIN ret.val :
           i < j => TierOf(ret.val[i]) <= TierOf(ret.val[j])
      /\ \A k \in DOMAIN Tiers :
           InTier(ret.val, k) = sort_tasks_by_time(task_objs, InTier(ret.arg, k))

\* a High task due later precedes a Medium task due earlier that came first
\* in the input, and a tier holds two tasks that the time sort exchanges
C11_Witness ==
    /\ IsPrioritySort
    /\ \E i \in DOMAIN ret.val, j \in DOMAIN ret.val :
         /\ i < j
         /\ task_objs[ret.val[i]].priority = HIGH
         /\ task_objs[ret.val[j]].priority = MEDIUM
         /\ task_objs[ret.val[j]].due_time # NoTime
         /\ task_objs[ret.val[i]].due_time > task_objs[ret.val[j]].due_time
         /\ ret.val[j] < ret.val[i]
    /\ \E k \in DOMAIN Tiers : InTier(ret.val, k) # InTier(ret.arg, k)

-----------------------------------------------------------------------------
(* filter_tasks: C12 *)

IsFilter == ret.op = "filter_tasks"

\* the flat baseline list the Scheduler sees: empty without a bound Owner
Baseline == IF sched_owner THEN FlatTasks ELSE <<>>

\* the tasks of a list of (pet name, task) pairs
TasksOf(pairs) == [k \in DOMAIN pairs |-> pairs[k].task]

\* C12: filter_tasks returns the tasks of the baseline list, in baseline
\* order, whose pet name is the given one (when given) and whose completion
\* flag is the given one (when given); everything when both are omitted;
\* the empty list for a name no pet carries or without a bound Owner.
C12_FilterBoth ==
    IsFilter =>
      LET pet_name == ret.arg[1]
          completed == ret.arg[2]
          Keeps(x) ==
            /\ pet_name # NoPet => x.pet = pet_name
            /\ completed = <<TRUE>> => task_objs[x.task].is_completed
            /\ completed = <<FALSE>> => ~task_objs[x.task].is_completed
      IN  /\ ret.val = TasksOf(SelectSeq(Baseline, Keeps))
          /\ (pet_name = NoPet /\ completed = NoFlag)
               => ret.val = TasksOf(Baseline)
          /\ (pet_name # NoPet /\ ~PetExists(pet_name)) => ret.val = <<>>
          /\ ~sched_owner => ret.val = <<>>

\* both filters given: each of them alone keeps a task the other drops
C12_Witness ==
    /\ IsFilter
    /\ ret.arg[1] # NoPet
    /\ ret.arg[2] # NoFlag
    /\ Len(ret.val) = 1
    /\ \E k \in DOMAIN Baseline :
         /\ Baseline[k].pet = ret.arg[1]
         /\ <<task_objs[Baseline[k].task].is_completed>> # ret.arg[2]
    /\ \E k \in DOMAIN Baseline :
         /\ Baseline[k].pet # ret.arg[1]
         /\ <<task_objs[Baseline[k].task].is_completed>> = ret.arg[2]

-----------------------------------------------------------------------------
(* a Scheduler without an Owner: C14 *)

\* C14: while no Owner is bound, get_all_tasks, filter_tasks,
\* detect_all_conflicts and generate_daily_schedule return the empty list,
\* get_pet_by_name returns None, check_conflicts returns false,
\* generate_recurring_tasks returns 0 and complete_task returns false.
C14_UnboundIsEmpty ==
    ~sched_owner =>
      /\ ret.op \in {"get_all_tasks", "filter_tasks", "detect_all_conflicts",
                     "generate_daily_schedule"} => ret.val = <<>>
      /\ ret.op = "get_pet_by_name" => ret.val = 0
      /\ ret.op = "check_conflicts" => ret.val = FALSE
      /\ ret.op = "generate_recurring_tasks" => ret.val = 0
      /\ ret.op = "complete_task" => ret.val = FALSE

\* without a bound Owner, a recurring task of a pet of the Owner object was
\* completed for that pet's name, and false came back
C14_Witness ==
    /\ ~sched_owner
    /\ ret.op = "complete_task"
    /\ Recurs(task_objs[ret.arg[1]])
    /\ \E k \in DOMAIN FlatTasks :
         FlatTasks[k].task = ret.arg[1] /\ FlatTasks[k].pet = ret.arg[2]
    /\ ret.val = FALSE

-----------------------------------------------------------------------------
(* check_conflicts: C18 *)

\* the time windows [due, due + duration) of two timed tasks intersect
WindowsMeet(a, b) ==
    /\ a.due_time # NoTime
    /\ b.due_time # NoTime
    /\ a.due_time < b.due_time + b.duration_minutes
    /\ b.due_time < a.due_time + a.duration_minutes

\* C18: a call of check_conflicts(new_task) returns true iff some task
\* attached to the bound Owner, completed or not, overlaps new_task, and
\* changes no object.
C18_CheckConflicts ==
    /\ [](ret.op = "check_conflicts" =>
            ret.val =
              ( /\ sched_owner
                /\ \E k \in DOMAIN FlatTasks :
                     WindowsMeet(task_objs[FlatTasks[k].task], ret.arg[1]) ))
    /\ [][ret'.op = "check_conflicts" => Frozen]_vars

\* true came back although every overlapping attached task is completed
C18_Witness ==
    /\ ret.op = "check_conflicts"
    /\ ret.val = TRUE
    /\ \A k \in DOMAIN FlatTasks :
         WindowsMeet(task_objs[FlatTasks[k].task], ret.arg[1])
           => task_objs[FlatTasks[k].task].is_completed

-----------------------------------------------------------------------------
(* set_owner resynchronises the counter: C13 *)

\* 1 + the greatest id attached to the Owner's pets, 1 when there is none
NextAfterSync ==
    IF AttachedIds = {} THEN 1
    ELSE 1 + (CHOOSE m \in AttachedIds : \A x \in AttachedIds : x <= m)

\* C13: right after set_owner the counter is 1 + the greatest attached id
\* (1 without tasks), and a generate_task_id that follows at once returns it.
C13_NextIdAfterSetOwner ==
    /\ [](ret.op = "set_owner" => next_task_id = NextAfterSync)
    /\ [][ (ret.op = "set_owner" /\ ret'.op = "generate_task_id")
            => ret'.val = NextAfterSync ]_vars

\* set_owner found one task, with id 2, and left the counter at 3
C13_Witness ==
    /\ ret.op = "set_owner"
    /\ Len(FlatTasks) = 1
    /\ AttachedIds = {2}
    /\ next_task_id = 3

-----------------------------------------------------------------------------
(* ownership of tasks: C19, C20 *)

\* the places (pet, position) of the pets' task sequences
Places == { <<p, i>> \in (DOMAIN pet_objs) \X (1..MaxTasks) :
              i \in DOMAIN pet_objs[p].tasks }

\* C19: every task in a pet's task sequence carries the name of the pet that
\* holds it in pet_name.
C19_PetNameOfHolder ==
    \A q \in Places :
      task_objs[pet_objs[q[1]].tasks[q[2]]].pet_name = pet_objs[q[1]].name

\* C20: no task is in the task sequences of two pets, and no task is twice in
\* the sequence of one pet.
C20_OneOwningPet ==
    \A q \in Places, r \in Places :
      pet_objs[q[1]].tasks[q[2]] = pet_objs[r[1]].tasks[r[2]] => q = r

-----------------------------------------------------------------------------
(* generate_recurring_tasks: C16 *)

\* every Pet object is once in the Owner's list
PetsListedOnce ==
    \A i \in DOMAIN owner_pets, j \in DOMAIN owner_pets :
      owner_pets[i] = owner_pets[j] => i = j

\* the cursor values due_time + k * period within [start_date, end_date]
Cursors(task, start_date, end_date) ==
    { c \in { task.due_time + k * SpecOffset(task.frequency) :
                k \in 0..((end_date - task.due_time)
                            \div SpecOffset(task.frequency)) } :
        start_date <= c /\ c <= end_date }

\* what a created task has from its original: everything but id and flags
Shape(task, due_time) ==
    [description |-> task.description,
     duration_minutes |-> task.duration_minutes, priority |-> task.priority,
     frequency |-> task.frequency, due_time |-> due_time]

\* the (position, cursor) pairs of pet p that the call has to expand
Expansions(p, start_date, end_date) ==
    UNION { LET task == task_objs[pet_objs[p].tasks[i]]
            IN  IF task.frequency = ONE_TIME \/ task.due_time = NoTime THEN {}
                ELSE { <<i, c>> : c \in Cursors(task, start_date, end_date) } :
            i \in DOMAIN pet_objs[p].tasks }

\* the positions that the step added to the task sequence of pet p
AddedAt(p) == (DOMAIN pet_objs'[p].tasks) \ (DOMAIN pet_objs[p].tasks)

\* the Task objects constructed by the step
NewTasks == (DOMAIN task_objs') \ (DOMAIN task_objs)

\* every attached task is in one place of one pet
TasksInOnePlace ==
    \A q \in Places, r \in Places :
      pet_objs[q[1]].tasks[q[2]] = pet_objs[r[1]].tasks[r[2]] => q = r

\* C16, for an Owner that lists every pet once and whose tasks are each in
\* one place: a generate_recurring_tasks step on a bound Scheduler appends
\* to each pet, for each recurring timed task it held and each cursor value
\* in the range, exactly one new incomplete task of the same description,
\* duration, priority and frequency, due at the cursor, with a fresh id, and
\* nothing else; the returned value is the number of tasks appended.
C16_RecurringExpansion ==
    [][ (ret'.op = "generate_recurring_tasks" /\ sched_owner
           /\ PetsListedOnce /\ TasksInOnePlace) =>
          LET start_date == ret'.arg[1]
              end_date == ret'.arg[2]
          IN  /\ \A t \in DOMAIN task_objs : task_objs'[t] = task_objs[t]
              /\ \A p \in DOMAIN pet_objs :
                   /\ SubSeq(pet_objs'[p].tasks, 1, Len(pet_objs[p].tasks))
                        = pet_objs[p].tasks
                   /\ \A i \in AddedAt(p) :
                        /\ pet_objs'[p].tasks[i] \in NewTasks
                        /\ ~task_objs'[pet_objs'[p].tasks[i]].is_completed
                   /\ LET due == Expansions(p, start_date, end_date)
                           ShapeOfDue(e) ==
                             Shape(task_objs[pet_objs[p].tasks[e[1]]], e[2])
                           ShapeOfAdded(i) ==
                             LET n == task_objs'[pet_objs'[p].tasks[i]]
                             IN  Shape(n, n.due_time)
                       IN  /\ Cardinality(AddedAt(p)) = Cardinality(due)
                           /\ \A e \in due :
                                Cardinality({ i \in AddedAt(p) :
                                               ShapeOfAdded(i) = ShapeOfDue(e) })
                                = Cardinality({ d \in due :
                                               ShapeOfDue(d) = ShapeOfDue(e) })
              /\ \A n \in NewTasks :
                   /\ task_objs'[n].id \notin AttachedIds
                   /\ \A m \in NewTasks :
                        task_objs'[m].id = task_objs'[n].id => m = n
              /\ ret'.val = Cardinality(NewTasks)
      ]_vars

-----------------------------------------------------------------------------
(* validation at construction: C15 *)

\* the messages of the validation errors
ValidationErrors ==
    { "ValueError: Duration must be greater than 0.",
      "ValueError: Description cannot be empty.",
      "ValueError: Pet name cannot be empty.",
      "ValueError: Species cannot be empty.",
      "ValueError: Age cannot be negative." }

\* C15: constructing a Task with duration_minutes <= 0 or an empty
\* description, or a Pet with an empty name, an empty species or a negative
\* age, raises a validation error and leaves every pet's task sequence and
\* the Owner's pet sequence as they were; any other construction succeeds
\* with the values given, none of them clamped.
C15_ValidationAtConstruction ==
    /\ [](ret.op = "Task" =>
            IF ret.arg[1] <= 0 \/ ret.arg[2] = ""
            THEN ret.val \in ValidationErrors
            ELSE /\ ret.val = NoError
                 /\ task_objs[Len(task_objs)].duration_minutes = ret.arg[1]
                 /\ task_objs[Len(task_objs)].description = ret.arg[2])
    /\ [](ret.op = "Pet" =>
            IF ret.arg[1] = "" \/ ret.arg[2] = "" \/ ret.arg[3] < 0
            THEN ret.val \in ValidationErrors
            ELSE /\ ret.val = NoError
                 /\ pet_objs[Len(pet_objs)].name = ret.arg[1]
                 /\ pet_objs[Len(pet_objs)].species = ret.arg[2]
                 /\ pet_objs[Len(pet_objs)].age = ret.arg[3])
    /\ [][ (/\ ret'.op \in {"Task", "Pet"}
            /\ ret'.val \in ValidationErrors)
           => UNCHANGED <<task_objs, pet_objs, owner_pets>> ]_vars
    /\ [][ (/\ ret'.op = "Task"
            /\ (ret'.arg[1] <= 0 \/ ret'.arg[2] = ""))
           => UNCHANGED <<task_objs, pet_objs, owner_pets>> ]_vars

\* a Task with duration 0 was refused while the pet holds a task
C15_Witness ==
    /\ ret.op = "Task"
    /\ ret.arg[1] = 0
    /\ ret.arg[2] # ""
    /\ ret.val = "ValueError: Duration must be greater than 0."
    /\ Len(FlatTasks) >= 1

-----------------------------------------------------------------------------
(* loading a snapshot: C17 *)

\* a task entry of a snapshot with every key present and of the right kind
WellFormedTask(data) ==
    /\ IsPriority(NormalPriority(data.priority))
    /\ data.description.tag = "str" /\ data.description.s # ""
    /\ data.duration_minutes.tag = "int" /\ data.duration_minutes.n > 0
    /\ \/ data.due_time.tag = "null"
       \/ data.due_time.tag = "str" /\ FromIso(data.due_time.s) # NoTime
    /\ IsFrequency(data.frequency)

WellFormedPet(data) ==
    /\ data.tag = "object"
    /\ data.name.tag = "str" /\ data.name.s # ""
    /\ data.species.tag = "str" /\ data.species.s # ""
    /\ data.age.tag = "int" /\ data.age.n >= 0
    /\ data.tasks.tag \in {"absent", "list"}
    /\ \A k \in DOMAIN data.tasks.items : WellFormedTask(data.tasks.items[k])

\* the snapshot is missing, is no JSON, or is JSON of another structure
\* than an owner object with a name and a list of well-formed pets
MissingOrInvalid(file) ==
    \/ file.kind \in {"missing", "garbage"}
    \/ file.top # "object"
    \/ file.name.tag \notin {"absent", "str"}
    \/ file.pets.tag \notin {"absent", "list"}
    \/ \E k \in DOMAIN file.pets.items : ~WellFormedPet(file.pets.items[k])

\* C17: for every missing or structurally invalid snapshot load_from_json
\* raises nothing and returns an Owner named "Pet Owner" with zero pets.
C17_LoadNeverRaises ==
    (ret.op = "load_from_json" /\ MissingOrInvalid(ret.arg[1])) =>
      /\ ret.val.raised = NoError
      /\ ret.val.name = JStr("Pet Owner")
      /\ ret.val.pets = 0

-----------------------------------------------------------------------------
(* the life of a Task: C21 *)

\* no Task object disappears and no completed task becomes incomplete
CompletionKept ==
    /\ Len(task_objs') >= Len(task_objs)
    /\ \A t \in DOMAIN task_objs :
         task_objs[t].is_completed => task_objs'[t].is_completed

\* mark_complete on a task that is already completed changes nothing
MarkCompleteAgain ==
    (ret'.op = "mark_complete" /\ task_objs[ret'.arg[1]].is_completed) =>
      UNCHANGED <<task_objs, pet_objs, owner_pets, sched_owner, next_task_id>>

\* C21: under any sequence of core operations a completed task never
\* becomes incomplete, mark_complete on a completed task changes nothing,
\* and no operation other than mark_complete and complete_task changes any
\* field of an existing task.
C21_OnlyCompletionMutates ==
    [][/\ CompletionKept
       /\ MarkCompleteAgain
       /\ ret'.op \notin {"mark_complete", "complete_task"} =>
            \A t \in DOMAIN task_objs : task_objs'[t] = task_objs[t]]_vars

\* C21 as amended: as above, but add_task sets the pet_name of the task it
\* is given, and changes no other field and no other task; mark_complete
\* and complete_task change only is_completed, of the task they are given.
C21_CompletionAndPetName ==
    [][/\ CompletionKept
       /\ MarkCompleteAgain
       /\ ret'.op \notin {"mark_complete", "complete_task", "add_task"} =>
            \A t \in DOMAIN task_objs : task_objs'[t] = task_objs[t]
       /\ ret'.op = "add_task" =>
            \A t \in DOMAIN task_objs :
              /\ [task_objs'[t] EXCEPT !.pet_name = task_objs[t].pet_name]
                   = task_objs[t]
              /\ t # ret'.arg[2] => task_objs'[t] = task_objs[t]
       /\ ret'.op \in {"mark_complete", "complete_task"} =>
            \A t \in DOMAIN task_objs :
              /\ [task_objs'[t] EXCEPT !.is_completed = task_objs[t].is_completed]
                   = task_objs[t]
              /\ t # ret'.arg[1] => task_objs'[t] = task_objs[t]]_vars

\* mark_complete was called on the weekly task after complete_task had
\* completed it and appended its successor
C21_Witness ==
    /\ ret.op = "mark_complete" /\ ret.arg = <<1>>
    /\ Len(task_objs) >= 2
    /\ task_objs[1].frequency = WEEKLY /\ task_objs[1].is_completed
    /\ task_objs[2].due_time = task_objs[1].due_time + 7 * DayMinutes
    /\ ~task_objs[2].is_completed

-----------------------------------------------------------------------------
(* generate_daily_schedule as a greedy walk: C22 *)

\* rank of a priority tier: High first
RankOfTier(priority) == CHOOSE k \in DOMAIN Tiers : Tiers[k] = priority

\* a is walked before b: lower (rank, due_time), or the same and earlier in
\* the baseline list (the sort is stable)
WalkedBefore(a, b) ==
    \/ RankOfTier(task_objs[a].priority) < RankOfTier(task_objs[b].priority)
    \/ /\ task_objs[a].priority = task_objs[b].priority
       /\ \/ task_objs[a].due_time < task_objs[b].due_time
          \/ /\ task_objs[a].due_time = task_objs[b].due_time
             /\ BaseOf(a) < BaseOf(b)

\* used_minutes when the walk reaches candidate c: the durations of the
\* selected tasks walked before it
UsedBefore(selected, c) ==
    SumOver(task_objs, { s \in selected : WalkedBefore(s, c) })

\* C22: the returned list is the included candidates of the ascending
\* (rank, due_time) walk over exactly the incomplete tasks due on the target
\* date, in walk order: a candidate is included iff used_minutes plus its
\* duration is at most available_minutes, used_minutes starts at 0 and
\* grows by each included duration, a rejected candidate does not end the
\* walk and an included one stays.
C22_GreedyWalk ==
    IsSchedule =>
      LET selected == SelectedRefs
          candidates == CandidateRefs(ret.arg[2])
      IN  /\ selected \subseteq candidates
          /\ Len(ret.val) = Cardinality(selected)
          /\ \A i, j \in DOMAIN ret.val :
               i < j => WalkedBefore(ret.val[i].task, ret.val[j].task)
          /\ \A k \in DOMAIN ret.val :
               ret.val[k].pet = FlatTasks[BaseOf(ret.val[k].task)].pet
          /\ \A c \in candidates :
               c \in selected <=>
                 UsedBefore(selected, c) + task_objs[c].duration_minutes
                   <= ret.arg[1]

\* a candidate was rejected and a later candidate of the walk, of the
\* other pet, was included
C22_Witness ==
    /\ IsSchedule
    /\ \E i, j \in DOMAIN ret.val : ret.val[i].pet # ret.val[j].pet
    /\ \E l \in SelectedRefs :
         \E m \in CandidateRefs(ret.arg[2]) \ SelectedRefs :
           /\ RankOfTier(task_objs[m].priority) < RankOfTier(task_objs[l].priority)
           /\ \E h \in SelectedRefs : PlaceOf(h) < PlaceOf(l)

-----------------------------------------------------------------------------
(* append-only containers: C23 *)

IsPrefix(a, b) == Len(a) <= Len(b) /\ \A i \in DOMAIN a : b[i] = a[i]

\* C23: for every core operation, mutating or reading, each pet's task
\* sequence before the operation is a prefix of its sequence after it, and
\* the owner's pet sequence before is a prefix of its sequence after.
C23_AppendOnly ==
    [][/\ \A p \in DOMAIN pet_objs :
            /\ p \in DOMAIN pet_objs'
            /\ IsPrefix(pet_objs[p].tasks, pet_objs'[p].tasks)
       /\ IsPrefix(owner_pets, owner_pets')]_vars

\* complete_task appended a successor behind the tasks a pet already held,
\* in a session with two pets
C23_Witness ==
    /\ ret.op = "complete_task" /\ ret.val = TRUE
    /\ Len(owner_pets) = 2
    /\ \E p \in DOMAIN pet_objs :
         /\ Len(pet_objs[p].tasks) >= 2
         /\ pet_objs[p].tasks[Len(pet_objs[p].tasks)] = Len(task_objs)

-----------------------------------------------------------------------------
(* the task-id counter over the Scheduler's life: C24 *)

\* C24: over the Scheduler's whole life, repeated set_owner calls
\* included, the counter never decreases and generate_task_id returns the
\* counter and leaves it above the returned value, so the values returned
\* by successive calls are strictly increasing.
C24_CounterMonotone ==
    [][/\ next_task_id' >= next_task_id
       /\ ret'.op = "generate_task_id" =>
            (ret'.val = next_task_id /\ next_task_id' > ret'.val)]_vars

-----------------------------------------------------------------------------
(* complete_task followed by generate_recurring_tasks: C25 *)

\* the pets of the Owner that hold task t
HoldersOf(t) ==
    { p \in DOMAIN pet_objs :
        /\ \E k \in DOMAIN owner_pets : owner_pets[k] = p
        /\ \E i \in DOMAIN pet_objs[p].tasks : pet_objs[p].tasks[i] = t }

\* the first pet of the Owner with the name of pet p is p
FirstOfName(p) ==
    \E k \in DOMAIN owner_pets :
      /\ owner_pets[k] = p
      /\ \A j \in 1..(k - 1) : pet_objs[owner_pets[j]].name # pet_objs[p].name

\* the entries of pet p's list, after the step, that are incomplete and
\* have the description of t and the due time of t's next occurrence
NextOccurrences(p, t) ==
    { i \in DOMAIN pet_objs'[p].tasks :
        LET task == task_objs'[pet_objs'[p].tasks[i]]
        IN  /\ ~task.is_completed
            /\ task.description = task_objs[t].description
            /\ task.due_time = task_objs[t].due_time
                                  + SpecOffset(task_objs[t].frequency) }

\* the last call was complete_task(t, name of p) on a recurring timed task t
\* that p holds, and this step is generate_recurring_tasks over a range
\* containing t's next occurrence
CompletedThenExpanded(p, t) ==
    /\ sched_owner
    /\ ret.op = "complete_task" /\ ret.arg = <<t, pet_objs[p].name>>
    /\ p \in HoldersOf(t)
    /\ Recurs(task_objs[t])
    /\ ret'.op = "generate_recurring_tasks"
    /\ LET next == task_objs[t].due_time + SpecOffset(task_objs[t].frequency)
       IN  ret'.arg[1] <= next /\ next <= ret'.arg[2]

-----------------------------------------------------------------------------
(* ids under the discipline of the application: C26 *)

\* C26: when the tasks attached at set_owner have pairwise distinct ids,
\* set_owner is called once and every task the client attaches afterwards
\* takes a fresh value of generate_task_id, then in every reachable state,
\* also after complete_task and generate_recurring_tasks, the tasks attached
\* to the Owner have pairwise distinct ids.
C26_DistinctIds ==
    \A a, b \in DOMAIN FlatTasks :
      FlatTasks[a].task # FlatTasks[b].task =>
        task_objs[FlatTasks[a].task].id # task_objs[FlatTasks[b].task].id

\* the Owner was bound holding a task with id 2, and the client, then
\* complete_task, then generate_recurring_tasks each attached a task
C26_Witness ==
    /\ sched_owner
    /\ ret.op = "generate_recurring_tasks" /\ ret.val >= 1
    /\ Len(FlatTasks) = 4
    /\ task_objs[1].id = 2
    /\ \E t \in DOMAIN task_objs : task_objs[t].is_completed
    /\ \E t \in DOMAIN task_objs : task_objs[t].description = "vet"

-----------------------------------------------------------------------------
(* repeated complete_task on one task: C27 *)

\* the incomplete tasks, in heap h, with the description of task t and the
\* due time of its next occurrence
SuccessorsOf(h, t) ==
    { s \in DOMAIN h :
        /\ ~h[s].is_completed
        /\ h[s].description = task_objs[t].description
        /\ h[s].due_time = task_objs[t].due_time
                              + SpecOffset(task_objs[t].frequency) }

\* the step is complete_task on a Daily/Weekly/Monthly task with a due
\* time, for a name a pet of the bound Owner carries
CompletesRecurring ==
    /\ ret'.op = "complete_task"
    /\ task_objs[ret'.arg[1]].frequency \in {DAILY, WEEKLY, MONTHLY}
    /\ task_objs[ret'.arg[1]].due_time # NoTime
    /\ PetExists(ret'.arg[2])

\* the step adds one incomplete successor of t, overlapping every successor
\* there was, whether or not t was completed before
OneMoreSuccessor(t) ==
    LET n == Len(task_objs) + 1
    IN  /\ Len(task_objs') = n
        /\ SuccessorsOf(task_objs', t) = SuccessorsOf(task_objs, t) \cup {n}
        /\ \E p \in DOMAIN pet_objs : ChangedPets = {p} /\ AppendedTo(p, n)
        /\ \A s \in SuccessorsOf(task_objs, t) :
             WindowsMeet(task_objs'[s], task_objs'[n])

\* C27: each complete_task call on the same Daily/Weekly/Monthly task with
\* a due time and an existing pet appends one more incomplete successor due
\* at the original due time plus the period, with a fresh id, even when the
\* task was already completed; the successors pairwise overlap.
C27_OneSuccessorPerCall ==
    [][CompletesRecurring =>
         /\ OneMoreSuccessor(ret'.arg[1])
         /\ task_objs'[Len(task_objs')].id \notin AttachedIds]_vars

-----------------------------------------------------------------------------
(* where complete_task puts the successor: C28 *)

-----------------------------------------------------------------------------
(* generate_recurring_tasks copies the source occurrence: C29 *)

\* task t, held by pet p of the bound Owner, recurs and is due within the
\* range
SourceInRange(p, t, range) ==
    /\ sched_owner
    /\ p \in HoldersOf(t)
    /\ Recurs(task_objs[t])
    /\ range[1] <= task_objs[t].due_time
    /\ task_objs[t].due_time <= range[2]

\* the record reports two tasks of pet p with t's description and due time
\* as a conflict within one pet
ReportsCopy(record, p, t) ==
    /\ record.conflict_type = "SAME PET"
    /\ record.description_1 = task_objs[t].description
    /\ record.description_2 = task_objs[t].description
    /\ record.pet_name_1 = pet_objs[p].name
    /\ record.pet_name_2 = pet_objs[p].name
    /\ record.time_1 = FormatTime(task_objs[t].due_time)
    /\ record.time_2 = FormatTime(task_objs[t].due_time)

\* C29: for a recurring task T with start_date <= T.due_time <= end_date,
\* generate_recurring_tasks adds to T's pet a task with T's due time, and
\* when T is incomplete a detect_all_conflicts that follows reports T and
\* that copy as a conflict of the same pet. (The tasks a call created are
\* the last ret.val objects of the heap; the others are its sources.)
C29_SourceCopied ==
    [][/\ ret'.op = "generate_recurring_tasks" =>
            \A p \in DOMAIN pet_objs : \A t \in DOMAIN task_objs :
              SourceInRange(p, t, ret'.arg) =>
                \E i \in AddedAt(p) :
                  LET new_task == task_objs'[pet_objs'[p].tasks[i]]
                  IN  /\ pet_objs'[p].tasks[i] \in NewTasks
                      /\ new_task.due_time = task_objs[t].due_time
                      /\ new_task.description = task_objs[t].description
                      /\ ~new_task.is_completed
       /\ (ret.op = "generate_recurring_tasks"
             /\ ret'.op = "detect_all_conflicts") =>
            \A p \in DOMAIN pet_objs : \A t \in 1..(Len(task_objs) - ret.val) :
              (SourceInRange(p, t, ret.arg) /\ ~task_objs[t].is_completed) =>
                \E k \in DOMAIN ret'.val : ReportsCopy(ret'.val[k], p, t)]_vars

\* detect_all_conflicts reported the incomplete daily task the Owner started
\* with against a copy due at the same time
C29_Witness ==
    /\ ret.op = "detect_all_conflicts"
    /\ Len(task_objs) >= 2
    /\ Recurs(task_objs[1]) /\ ~task_objs[1].is_completed
    /\ \E c \in 2..Len(task_objs) :
         /\ task_objs[c].due_time = task_objs[1].due_time
         /\ ~task_objs[c].is_completed
    /\ \E p \in HoldersOf(1) : \E k \in DOMAIN ret.val :
         ReportsCopy(ret.val[k], p, 1)

-----------------------------------------------------------------------------
(* higher tiers do not depend on lower ones: C30 *)

\* what two Owners' tasks are compared by
TaskValue(task) ==
    <<task.description, task.duration_minutes, task.priority, task.due_time>>

\* the pairs of a list whose task is of the first k tiers, as values
UpToTier(pairs, k) ==
    LET kept == SelectSeq(pairs,
                  LAMBDA x : RankOfTier(task_objs[x.task].priority) <= k)
    IN  [i \in DOMAIN kept |-> TaskValue(task_objs[kept[i].task])]

\* the candidates of the date among an Owner's tasks, in baseline order
CandidatesOf(opets, date) ==
    SelectSeq(OwnerAllTasks(pet_objs, opets, 1),
              LAMBDA x : /\ ~task_objs[x.task].is_completed
                         /\ task_objs[x.task].due_time # NoTime
                         /\ task_objs[x.task].due_time \div 1440 = date \div 1440)

\* C30: when two Owners agree on their High candidates of the date (same
\* tasks in the same baseline order) and available_minutes is the same, the
\* High tasks selected are the same whatever Medium and Low tasks each
\* holds; likewise for the High and Medium tasks whatever the Low tasks.
C30_TiersIndependent ==
    ret.op = "generate_daily_schedules" =>
      \A k \in {1, 2} :
        UpToTier(CandidatesOf(owner_pets, ret.arg[2]), k)
          = UpToTier(CandidatesOf(SecondOwnerPets, ret.arg[2]), k)
        => UpToTier(ret.val[1], k) = UpToTier(ret.val[2], k)

\* two Owners with the same High candidate: one holds nothing else and
\* selects it alone, the other selects a Low task after it
C30_Witness ==
    /\ ret.op = "generate_daily_schedules"
    /\ UpToTier(CandidatesOf(owner_pets, ret.arg[2]), 1)
         = UpToTier(CandidatesOf(SecondOwnerPets, ret.arg[2]), 1)
    /\ Len(UpToTier(ret.val[1], 1)) = 1
    /\ Len(ret.val[1]) = 1
    /\ Len(ret.val[2]) = 2
    /\ task_objs[ret.val[2][2].task].priority = LOW

====
